---- MODULE Spec2Model ----
(***************************************************************************)
(* A model of the vm repository: the lexer (package lexer), the single     *)
(* pass compiler with label back-patching (package compiler) and the       *)
(* bytecode interpreter (package cpu).                                     *)
(*                                                                         *)
(* Characters are one-character strings; rune(0) is the atom NUL.  Go      *)
(* strings are sequences of characters (lexer, compiler) or sequences of   *)
(* bytes 0..255 (image, memory, string registers, standard output); Ord    *)
(* converts a character to its byte.                                       *)
(***************************************************************************)
EXTENDS Integers, Sequences, FiniteSets, TLC

VARIABLES
    lx,    \* the lexer.Lexer driven directly through NextToken
    tok,   \* the token.Token the last lx.NextToken() call returned
    comp,  \* the compiler.Compiler (its lexer included)
    cpu,   \* the cpu.CPU
    pc,    \* where the driver (an API caller, or the run command) stands
    h      \* history of the run, read only by the properties

vars == <<lx, tok, comp, cpu, pc, h>>

-----------------------------------------------------------------------------
(* Characters and bytes                                                    *)

NUL == "NUL"

Printable ==
    << " ", "!", "\"", "#", "$", "%", "&", "'", "(", ")", "*", "+",
       ",", "-", ".", "/", "0", "1", "2", "3", "4", "5", "6", "7",
       "8", "9", ":", ";", "<", "=", ">", "?", "@", "A", "B", "C",
       "D", "E", "F", "G", "H", "I", "J", "K", "L", "M", "N", "O",
       "P", "Q", "R", "S", "T", "U", "V", "W", "X", "Y", "Z", "[",
       "\\", "]", "^", "_", "GRAVE", "a", "b", "c", "d", "e", "f", "g",
       "h", "i", "j", "k", "l", "m", "n", "o", "p", "q", "r", "s",
       "t", "u", "v", "w", "x", "y", "z", "{", "|", "}", "~" >>
\* The byte of an ASCII character (Go's string(rune) and s[i] for ASCII).
Ord(ch) ==
    IF ch = NUL THEN 0
    ELSE IF ch = "\t" THEN 9
    ELSE IF ch = "\n" THEN 10
    ELSE IF ch = "\r" THEN 13
    ELSE 31 + (CHOOSE i \in 1..Len(Printable) : Printable[i] = ch)

\* A character outside ASCII: U+00E9.
EACUTE == "EACUTE"

\* string(rune): the UTF-8 bytes of a character.
utf8(ch) == IF ch = EACUTE THEN <<195, 169>> ELSE <<Ord(ch)>>

\* The bytes of a sequence of characters held as a Go string.
RECURSIVE Bytes(_)
Bytes(s) == IF s = <<>> THEN <<>> ELSE utf8(Head(s)) \o Bytes(Tail(s))

-----------------------------------------------------------------------------
(* package token                                                           *)

keywords ==
    { <<<<"a","d","d">>, "ADD">>,
       <<<<"s","u","b">>, "SUB">>,
       <<<<"m","u","l">>, "MUL">>,
       <<<<"d","i","v">>, "DIV">>,
       <<<<"i","n","c">>, "INC">>,
       <<<<"d","e","c">>, "DEC">>,
       <<<<"a","n","d">>, "AND">>,
       <<<<"o","r">>, "OR">>,
       <<<<"x","o","r">>, "XOR">>,
       <<<<"c","a","l","l">>, "CALL">>,
       <<<<"r","e","t">>, "RET">>,
       <<<<"j","m","p">>, "JMP">>,
       <<<<"j","m","p","_","z">>, "JMP_Z">>,
       <<<<"j","m","p","_","n","z">>, "JMP_NZ">>,
       <<<<"p","u","s","h">>, "PUSH">>,
       <<<<"p","o","p">>, "POP">>,
       <<<<"i","s","_","i","n","t">>, "IS_INT">>,
       <<<<"i","s","_","s","t","r">>, "IS_STR">>,
       <<<<"i","n","t","_","t","o","_","s","t","r">>, "INT_TO_STR">>,
       <<<<"s","t","r","_","t","o","_","i","n","t">>, "STR_TO_INT">>,
       <<<<"c","m","p">>, "CMP">>,
       <<<<"s","t","o","r","e">>, "STORE">>,
       <<<<"p","r","i","n","t","_","i","n","t">>, "PRINT_INT">>,
       <<<<"p","r","i","n","t","_","s","t","r">>, "PRINT_STR">>,
       <<<<"p","e","e","k">>, "PEEK">>,
       <<<<"p","o","k","e">>, "POKE">>,
       <<<<"c","o","n","c","a","t">>, "CONCAT">>,
       <<<<"d","a","t","a">>, "DATA">>,
       <<<<"d","b">>, "DB">>,
       <<<<"e","x","i","t">>, "EXIT">>,
       <<<<"m","e","m","C","p","y">>, "MEM_CPY">>,
       <<<<"n","o","p">>, "NOP">>,
       <<<<"r","a","n","d">>, "RAND">>,
       <<<<"s","y","s","t","e","m">>, "SYSTEM">>,
       <<<<"t","r","a","p">>, "TRAP">> }
LookupIdentifier(ident) ==
    IF \E p \in keywords : p[1] = ident
    THEN (CHOOSE p \in keywords : p[1] = ident)[2]
    ELSE "IDENT"

-----------------------------------------------------------------------------
(* package lexer                                                           *)

isWhiteSpace(char) == char \in {" ", "\n", "\t", "\r"}

isEmpty(char) == char = NUL

isIdentifier(char) == char # "," /\ ~isWhiteSpace(char) /\ ~isEmpty(char)

isDigit(char) == char \in {"0", "1", "2", "3", "4", "5", "6", "7", "8", "9"}

isHexDigit(char) ==
    \/ isDigit(char)
    \/ char \in {"a", "b", "c", "d", "e", "f"}
    \/ char \in {"A", "B", "C", "D", "E", "F"}
    \/ char \in {"x", "X"}

\* readChar: the character at nextPos, or rune(0) past the end; both
\* cursors advance even past the end.
readChar(l) ==
    [l EXCEPT !.char = IF l.nextPos >= Len(l.characters) THEN NUL
                       ELSE l.characters[l.nextPos + 1],
              !.pos = l.nextPos,
              !.nextPos = l.nextPos + 1]

peekChar(l) ==
    IF l.nextPos >= Len(l.characters) THEN NUL ELSE l.characters[l.nextPos + 1]

\* lexer.New: the struct's zero value, then one readChar.
New(input) ==
    readChar([pos |-> 0, nextPos |-> 0, char |-> NUL, characters |-> input])

RECURSIVE skipWhitespace(_)
skipWhitespace(l) ==
    IF isWhiteSpace(l.char) THEN skipWhitespace(readChar(l)) ELSE l

\* A comment that ends at the first blank as well.
RECURSIVE skipComment_stopsAtBlank(_)
skipComment_stopsAtBlank(l) ==
    IF l.char # "\n" /\ l.char # " " /\ l.char # NUL
    THEN skipComment_stopsAtBlank(readChar(l)) ELSE l

RECURSIVE skipComment(_)
skipComment(l) ==
    IF l.char # "\n" /\ l.char # NUL THEN skipComment(readChar(l)) ELSE l

\* The escape handling of readStr: the character after a backslash.
unescape(char) ==
    IF char = "n" THEN "\n"
    ELSE IF char = "t" THEN "\t"
    ELSE IF char = "r" THEN "\r"
    ELSE char

\* readStr's loop, entered with the opening quote as the current character.
\* The loop leaves only at a closing quote.  Once nextPos is at or past the
\* end of the input every readChar yields rune(0), so the loop never leaves:
\* that outcome is reported as hung.
RECURSIVE readStrLoop(_, _)

\* str += string(l.char), and round the loop again
readStrAppend(l, str) == readStrLoop(l, Append(str, l.char))

\* The lexer after the character following a backslash was read and
\* replaced by what it stands for.
readStrEscape(l) == [l EXCEPT !.char = unescape(l.char)]

\* The loop's body once readChar has been called.
readStrBody(l, str) ==
    IF l.char = "\""
    THEN [val |-> str, l |-> l, hung |-> FALSE]
    ELSE IF l.char = "\\"
    THEN readStrAppend(readStrEscape(readChar(l)), str)
    ELSE readStrAppend(l, str)

readStrLoop(l, str) ==
    IF l.nextPos >= Len(l.characters)
    THEN [val |-> str, l |-> l, hung |-> TRUE]
    ELSE readStrBody(readChar(l), str)

readStr(l) == readStrLoop(l, <<>>)

\* l.characters[start:l.pos] with the lexer it was read by: start is the
\* position of l0, l the lexer after the loop.
slice(l0, l) == [val |-> SubSeq(l0.characters, l0.pos + 1, l.pos), l |-> l]

RECURSIVE untilWhitespace(_)
untilWhitespace(l) ==
    IF ~isWhiteSpace(l.char) /\ l.char # NUL THEN untilWhitespace(readChar(l)) ELSE l

readUntilWhitespace(l) == slice(l, untilWhitespace(l))

readLabel(l) == readUntilWhitespace(l)

RECURSIVE whileHexDigit(_)
whileHexDigit(l) == IF isHexDigit(l.char) THEN whileHexDigit(readChar(l)) ELSE l

readNumber(l) == slice(l, whileHexDigit(l))

RECURSIVE whileIdentifier(_)
whileIdentifier(l) == IF isIdentifier(l.char) THEN whileIdentifier(readChar(l)) ELSE l

readIdentifier(l) == slice(l, whileIdentifier(l))

\* A call of NextToken that returned tok and left the lexer as l.
returned(typ, literal, l) ==
    [tok |-> [Type |-> typ, Literal |-> literal], l |-> l, hung |-> FALSE]

\* readDecimal after readNumber gave n, and after readUntilWhitespace gave r.
readDecimalIllegal(n, r) == returned("ILLEGAL", n.val \o r.val, r.l)

readDecimalNumber(n) ==
    IF isWhiteSpace(n.l.char) \/ isEmpty(n.l.char) \/ n.l.char = ","
    THEN returned("INT", n.val, n.l)
    ELSE readDecimalIllegal(n, readUntilWhitespace(n.l))

readDecimal(l) == readDecimalNumber(readNumber(l))

NoToken == [Type |-> "NONE", Literal |-> <<>>]

\* NextToken's cases for a string (r is what readStr gave), a label and an
\* identifier.
strToken(r) ==
    IF r.hung THEN [tok |-> NoToken, l |-> r.l, hung |-> TRUE]
    ELSE returned("STR", r.val, readChar(r.l))

labelToken(r) == returned("LABEL", r.val, readChar(r.l))

identToken(r) == returned(LookupIdentifier(r.val), r.val, r.l)

\* NextToken: the token, the lexer after the call, and whether the call
\* fails to return (hung, see readStrLoop).
RECURSIVE NextToken(_)

\* NextToken after skipWhitespace.
nextTokenAt(l) ==
    IF l.char = "#" /\ ~isDigit(peekChar(l)) THEN NextToken(skipComment(l))
    ELSE IF l.char = "," THEN returned("COMMA", <<l.char>>, readChar(l))
    ELSE IF l.char = "\"" THEN strToken(readStr(l))
    ELSE IF l.char = ":" THEN labelToken(readLabel(l))
    ELSE IF l.char = NUL THEN returned("EOF", <<>>, readChar(l))
    ELSE IF isDigit(l.char) THEN readDecimal(l)
    ELSE identToken(readIdentifier(l))

NextToken(l) == nextTokenAt(skipWhitespace(l))

-----------------------------------------------------------------------------
(* package opcode                                                          *)

EXIT == 0
INT_STORE == 1
INT_PRINT == 2
INT_TO_STR == 3
INT_RAND == 4
JMP == 16
JMP_Z == 17
JMP_NZ == 18
ADD == 32
SUB == 33
MUL == 34
DIV == 35
INC == 36
DEC == 37
AND == 38
OR == 39
XOR == 40
STR_STORE == 48
STR_PRINT == 49
CONCAT == 50
SYSTEM == 51
STR_TO_INT == 52
CMP_INT == 64
CMP_STR == 65
CMP_REG == 66
IS_INT == 67
IS_STR == 68
NOP == 80
REG_STORE == 81
PEEK == 96
POKE == 97
MEM_CPY == 98
PUSH == 112
POP == 113
CALL == 114
RET == 115
TRAP == 128

-----------------------------------------------------------------------------
(* strconv, as the compiler and the interpreter use it.  The inputs of     *)
(* this model hold no underscore and no value of 2^31 or more.             *)

\* The value of a digit character, or -1.
digitVal(ch) ==
    IF isDigit(ch) THEN Ord(ch) - 48
    ELSE IF ch \in {"a", "b", "c", "d", "e", "f"} THEN Ord(ch) - 87
    ELSE IF ch \in {"A", "B", "C", "D", "E", "F"} THEN Ord(ch) - 55
    ELSE -1

\* The digits of s in the given base: [ok, val].
RECURSIVE parseDigits(_, _, _)
parseDigits(s, base, acc) ==
    IF s = <<>> THEN [ok |-> TRUE, val |-> acc]
    ELSE LET d == digitVal(Head(s)) IN
         IF d < 0 \/ d >= base THEN [ok |-> FALSE, val |-> 0]
         ELSE parseDigits(Tail(s), base, acc * base + d)

lower(ch) == IF ch = "X" THEN "x" ELSE IF ch = "B" THEN "b" ELSE IF ch = "O" THEN "o" ELSE ch

\* strconv.ParseUint(s, 0, 64): the base comes from the prefix.
parseUint0(s) ==
    IF s = <<>> THEN [ok |-> FALSE, val |-> 0]
    ELSE IF s[1] = "0"
    THEN IF Len(s) >= 3 /\ lower(s[2]) = "b" THEN parseDigits(SubSeq(s, 3, Len(s)), 2, 0)
         ELSE IF Len(s) >= 3 /\ lower(s[2]) = "o" THEN parseDigits(SubSeq(s, 3, Len(s)), 8, 0)
         ELSE IF Len(s) >= 3 /\ lower(s[2]) = "x" THEN parseDigits(SubSeq(s, 3, Len(s)), 16, 0)
         ELSE parseDigits(Tail(s), 8, 0)
    ELSE parseDigits(s, 10, 0)

\* The sign of s and the rest of it.
isNeg(s) == s[1] = "-"

unsigned(s) == IF s[1] \in {"+", "-"} THEN Tail(s) ELSE s

signed(neg, r) ==
    IF ~r.ok THEN r ELSE [ok |-> TRUE, val |-> IF neg THEN 0 - r.val ELSE r.val]

valueOr0(r) == IF r.ok THEN r.val ELSE 0

\* i, _ := strconv.ParseInt(s, 0, 64): the value, 0 on a syntax error.
ParseInt(s) ==
    IF s = <<>> THEN 0 ELSE valueOr0(signed(isNeg(s), parseUint0(unsigned(s))))

\* strconv.Atoi on a sequence of characters: [ok, val].
Atoi(s) ==
    IF s = <<>> \/ unsigned(s) = <<>> THEN [ok |-> FALSE, val |-> 0]
    ELSE signed(isNeg(s), parseDigits(unsigned(s), 10, 0))

\* strings.TrimPrefix(s, <<prefix>>) for a one-character prefix.
TrimPrefix(s, prefix) ==
    IF s # <<>> /\ s[1] = prefix THEN Tail(s) ELSE s

-----------------------------------------------------------------------------
(* package compiler.  c.status is "ok" while the process runs, "exit1"     *)
(* after os.Exit(1), "panic" after a panic, "hung" when a lexer call does  *)
(* not return; nothing happens after the first of these.                   *)

\* nextToken once c.lexer.NextToken() gave r.
advance(c, r) ==
    IF r.hung THEN [c EXCEPT !.status = "hung"]
    ELSE [c EXCEPT !.token = c.peekToken, !.peekToken = r.tok, !.lexer = r.l]

nextToken(c) == IF c.status # "ok" THEN c ELSE advance(c, NextToken(c.lexer))

\* compiler.New: empty tables, then nextToken twice.
CompilerNew(l) ==
    nextToken(nextToken(
        [lexer |-> l, token |-> [Type |-> "", Literal |-> <<>>],
         peekToken |-> [Type |-> "", Literal |-> <<>>],
         bytecode |-> <<>>, labels |-> <<>>, fixups |-> <<>>,
         patched |-> {}, status |-> "ok"]))

isRegister(input) == input # <<>> /\ input[1] = "#"

\* getRegister: [status, val]; Atoi's error panics, a number outside 0..15
\* ends the process.
registerOf(r) ==
    IF ~r.ok THEN [status |-> "panic", val |-> 0]
    ELSE IF 0 <= r.val /\ r.val <= 15 THEN [status |-> "ok", val |-> r.val]
    ELSE [status |-> "exit1", val |-> 0]

getRegister(input) == registerOf(Atoi(TrimPrefix(input, "#")))

isNextToken(c, t) == c.peekToken.Type = t

\* checkNextToken: advance on a match; nextError ends the process otherwise.
checkNextToken(c, t) ==
    IF c.status # "ok" THEN c
    ELSE IF isNextToken(c, t) THEN nextToken(c)
    ELSE [c EXCEPT !.status = "exit1"]

\* c.bytecode = append(c.bytecode, ...)
emit(c, bytes) ==
    IF c.status # "ok" THEN c ELSE [c EXCEPT !.bytecode = c.bytecode \o bytes]

\* The two bytes byte(v % 256), byte(v / 256) of a non-negative v.
lowHigh(v) == <<v % 256, (v \div 256) % 256>>

\* The operand prologue of an emitter, one step at a time: "next" is
\* nextToken, "reg" is getRegister(c.token.Literal), a token type is
\* checkNextToken of that type.  Gives the compiler and the registers read.
RECURSIVE operands(_, _, _)

\* The "reg" step once getRegister gave r.
operandsReg(c, ops, regs, r) ==
    operands([c EXCEPT !.status = r.status], Tail(ops), Append(regs, r.val))

operands(c, ops, regs) ==
    IF ops = <<>> \/ c.status # "ok" THEN [c |-> c, regs |-> regs]
    ELSE IF Head(ops) = "next" THEN operands(nextToken(c), Tail(ops), regs)
    ELSE IF Head(ops) = "reg" THEN operandsReg(c, ops, regs, getRegister(c.token.Literal))
    ELSE operands(checkNextToken(c, Head(ops)), Tail(ops), regs)

\* bytecode = append(bytecode, op, registers...) after the prologue gave r.
emitOp(r, op) == emit(r.c, <<op>> \o r.regs)

\* mathOp: add, sub, mul, div, and, or, xor
mathOp(c, op) ==
    emitOp(operands(c, <<"IDENT", "reg", "COMMA", "IDENT", "reg",
                         "COMMA", "IDENT", "reg">>, <<>>), op)

\* incOp, decOp, pushOp, popOp, isIntOp, isStrOp, intToStrOp, strToIntOp,
\* printIntOp, printStrOp, randOp, systemOp: one register.
oneRegOp(c, op) == emitOp(operands(c, <<"IDENT", "reg">>, <<>>), op)

\* addFixup: c.fixups[len(c.bytecode)] = name, then two zero bytes.
addFixup(c, name) ==
    emit([c EXCEPT !.fixups = [a \in DOMAIN c.fixups \cup {Len(c.bytecode)} |->
                                  IF a = Len(c.bytecode) THEN name ELSE c.fixups[a]]],
         <<0, 0>>)

\* callOp and jumpOp: the opcode first, then the target.
jumpTarget(c) ==
    IF c.status # "ok" THEN c
    ELSE IF c.token.Type = "INT" THEN emit(c, lowHigh(ParseInt(c.token.Literal)))
    ELSE IF c.token.Type = "IDENT" THEN addFixup(c, c.token.Literal)
    ELSE c

jumpOp(c, op) == jumpTarget(nextToken(emit(c, <<op>>)))

callOp(c) == jumpOp(c, CALL)

\* The operand of cmp and store when it is a register, getRegister having
\* given r.
registerOperand(c, reg, regOp, r) ==
    emit([c EXCEPT !.status = r.status], <<regOp, reg, r.val>>)

\* The operand of cmp and store after "reg ,": an integer, a string, a
\* register or a label.
valueOperand(c, reg, intOp, strOp, regOp) ==
    IF c.status # "ok" THEN c
    ELSE IF c.token.Type = "INT"
    THEN emit(c, <<intOp, reg>> \o lowHigh(ParseInt(c.token.Literal)))
    ELSE IF c.token.Type = "STR"
    THEN emit(c, <<strOp, reg>> \o lowHigh(Len(Bytes(c.token.Literal)))
                 \o Bytes(c.token.Literal))
    ELSE IF c.token.Type = "IDENT"
    THEN IF isRegister(c.token.Literal)
         THEN registerOperand(c, reg, regOp, getRegister(c.token.Literal))
         ELSE addFixup(emit(c, <<intOp, reg>>), c.token.Literal)
    ELSE [c EXCEPT !.status = "exit1"]

\* cmpOp and storeOp after the prologue "reg , next" gave r.
valueOp(r, intOp, strOp, regOp) ==
    IF r.c.status # "ok" THEN r.c
    ELSE valueOperand(r.c, r.regs[1], intOp, strOp, regOp)

cmpOp(c) ==
    valueOp(operands(c, <<"IDENT", "reg", "COMMA", "next">>, <<>>),
            CMP_INT, CMP_STR, CMP_REG)

storeOp(c) ==
    valueOp(operands(c, <<"IDENT", "reg", "COMMA", "next">>, <<>>),
            INT_STORE, STR_STORE, REG_STORE)

\* peekOp and pokeOp
twoRegOp(c, op) ==
    emitOp(operands(c, <<"IDENT", "reg", "COMMA", "IDENT", "reg">>, <<>>), op)

concatOp(c) ==
    emitOp(operands(c, <<"IDENT", "reg", "COMMA", "next", "reg",
                         "COMMA", "next", "reg">>, <<>>), CONCAT)

memCpyOp(c) ==
    emitOp(operands(c, <<"next", "reg", "COMMA", "next", "reg",
                         "COMMA", "next", "reg">>, <<>>), MEM_CPY)

\* dataOp's loop over ", INT" pairs.
\* byte(i) of the current token's number
dataByte(c) == emit(c, <<ParseInt(c.token.Literal) % 256>>)

RECURSIVE dataMore(_)
dataMore(c) ==
    IF c.status # "ok" \/ ~isNextToken(c, "COMMA") THEN c
    ELSE dataMore(dataByte(checkNextToken(nextToken(c), "INT")))

\* A data emitter that puts a 16-bit length before the bytes of a string.
dataFirst_withLengthPrefix(c) ==
    IF c.status # "ok" THEN c
    ELSE IF c.token.Type = "STR"
    THEN emit(c, lowHigh(Len(Bytes(c.token.Literal))) \o Bytes(c.token.Literal))
    ELSE dataMore(dataByte(c))

dataFirst(c) ==
    IF c.status # "ok" THEN c
    ELSE IF c.token.Type = "STR" THEN emit(c, Bytes(c.token.Literal))
    ELSE dataMore(dataByte(c))

dataOp(c) == dataFirst(nextToken(c))

trapNumber(c) ==
    IF c.status # "ok" THEN c
    ELSE IF c.token.Type = "INT"
    THEN emit(c, <<TRAP>> \o lowHigh(ParseInt(c.token.Literal)))
    ELSE c

trapOp(c) == trapNumber(nextToken(c))

\* A label's definition kept only when the name has none yet.
setLabel_keepsFirst(c, label) ==
    IF label \in DOMAIN c.labels THEN c
    ELSE [c EXCEPT !.labels = [n \in DOMAIN c.labels \cup {label} |->
                                  IF n = label THEN Len(c.bytecode) ELSE c.labels[n]]]

\* c.labels[label] = len(c.bytecode)
setLabel(c, label) ==
    [c EXCEPT !.labels = [n \in DOMAIN c.labels \cup {label} |->
                             IF n = label THEN Len(c.bytecode) ELSE c.labels[n]]]

defineLabel(c) == setLabel(c, TrimPrefix(c.token.Literal, ":"))

\* The switch of Compile's main loop on the current token.
dispatch(c) ==
    LET t == c.token.Type IN
    CASE t = "LABEL" -> defineLabel(c)
      [] t = "ADD" -> mathOp(c, ADD)
      [] t = "SUB" -> mathOp(c, SUB)
      [] t = "MUL" -> mathOp(c, MUL)
      [] t = "DIV" -> mathOp(c, DIV)
      [] t = "AND" -> mathOp(c, AND)
      [] t = "OR" -> mathOp(c, OR)
      [] t = "XOR" -> mathOp(c, XOR)
      [] t = "INC" -> oneRegOp(c, INC)
      [] t = "DEC" -> oneRegOp(c, DEC)
      [] t = "CALL" -> callOp(c)
      [] t = "RET" -> emit(c, <<RET>>)
      [] t = "JMP" -> jumpOp(c, JMP)
      [] t = "JMP_Z" -> jumpOp(c, JMP_Z)
      [] t = "JMP_NZ" -> jumpOp(c, JMP_NZ)
      [] t = "PUSH" -> oneRegOp(c, PUSH)
      [] t = "POP" -> oneRegOp(c, POP)
      [] t = "IS_INT" -> oneRegOp(c, IS_INT)
      [] t = "IS_STR" -> oneRegOp(c, IS_STR)
      [] t = "INT_TO_STR" -> oneRegOp(c, INT_TO_STR)
      [] t = "STR_TO_INT" -> oneRegOp(c, STR_TO_INT)
      [] t = "CMP" -> cmpOp(c)
      [] t = "STORE" -> storeOp(c)
      [] t = "PRINT_INT" -> oneRegOp(c, INT_PRINT)
      [] t = "PRINT_STR" -> oneRegOp(c, STR_PRINT)
      [] t = "PEEK" -> twoRegOp(c, PEEK)
      [] t = "POKE" -> twoRegOp(c, POKE)
      [] t = "CONCAT" -> concatOp(c)
      [] t = "DATA" -> dataOp(c)
      [] t = "DB" -> dataOp(c)
      [] t = "EXIT" -> emit(c, <<EXIT>>)
      [] t = "MEM_CPY" -> memCpyOp(c)
      [] t = "NOP" -> emit(c, <<NOP>>)
      [] t = "RAND" -> oneRegOp(c, INT_RAND)
      [] t = "SYSTEM" -> oneRegOp(c, SYSTEM)
      [] t = "TRAP" -> trapOp(c)
      [] OTHER -> c

\* One iteration of Compile's main loop: the emitter, then nextToken.
compileToken(c) == nextToken(dispatch(c))

\* One iteration of Compile's patch loop, for the fixup at addr: a name
\* missing from c.labels reads as 0.
\* value := c.labels[name]
labelValue(c, name) == IF name \in DOMAIN c.labels THEN c.labels[name] ELSE 0

\* if value == 0 { fmt.Printf("Possible use of undefined label ...") }
warnsUndefined(c, name) == labelValue(c, name) = 0

\* The patch written one byte early, over the byte before the placeholder.
patchBytes_oneByteEarly(c, addr, p) ==
    [c EXCEPT !.bytecode = [i \in DOMAIN c.bytecode |->
                               IF i = addr THEN p[1]
                               ELSE IF i = addr + 1 THEN p[2]
                               ELSE c.bytecode[i]],
              !.patched = c.patched \cup {addr}]

\* c.bytecode[addr], c.bytecode[addr+1] = p
patchBytes(c, addr, p) ==
    [c EXCEPT !.bytecode = [i \in DOMAIN c.bytecode |->
                               IF i = addr + 1 THEN p[1]
                               ELSE IF i = addr + 2 THEN p[2]
                               ELSE c.bytecode[i]],
              !.patched = c.patched \cup {addr}]

\* The patch loop marking a fixup done without writing its bytes.
patchFixup_leavesPlaceholder(c, addr) == [c EXCEPT !.patched = c.patched \cup {addr}]

patchFixup(c, addr) == patchBytes(c, addr, lowHigh(labelValue(c, c.fixups[addr])))

-----------------------------------------------------------------------------
(* package cpu: registers and stack                                        *)

\* maxMemSize: len(c.mem), and the largest integer a register holds.
maxMemSize == 65535

\* len(c.regs)
NumRegs == 15

IntObject(v) == [t |-> "int", v |-> v]

StrObject(v) == [t |-> "str", v |-> v]

\* SetInt without its two range checks.
SetInt_unclamped(v) == IntObject(v)

\* Register.SetInt: the object the register holds afterwards.
SetInt(v) ==
    IF v <= 0 THEN IntObject(0)
    ELSE IF v >= maxMemSize THEN IntObject(maxMemSize)
    ELSE IntObject(v)

\* Register.SetStr
SetStr(v) == StrObject(v)

NewRegister == SetInt(0)

\* Register.Type
Type(reg) == reg.t

\* Stack.Push, Stack.Pop, Stack.Empty; the top is the last entry.
Push(stack, val) == Append(stack, val)

\* Pop taking the oldest entry.
Pop_takesOldest(stack) == [top |-> stack[1], stack |-> SubSeq(stack, 2, Len(stack))]

Pop(stack) == [top |-> stack[Len(stack)], stack |-> SubSeq(stack, 1, Len(stack) - 1)]

Empty(stack) == Len(stack) = 0

-----------------------------------------------------------------------------
(* package cpu: memory.  c.mem is an array of maxMemSize bytes; the model  *)
(* keeps the non-zero bytes only, as a function from their addresses.      *)

MemAt(mem, addr) == IF addr \in DOMAIN mem THEN mem[addr] ELSE 0

\* c.mem[addr] = b
MemSet(mem, addr, b) ==
    LET dom == IF b = 0 THEN DOMAIN mem \ {addr} ELSE DOMAIN mem \cup {addr}
    IN  [x \in dom |-> IF x = addr THEN b ELSE mem[x]]

Min(x, y) == IF x <= y THEN x ELSE y

\* copy(c.mem[:], data): the first min(len(data), len(c.mem)) bytes are
\* overwritten, the others stay.
MemCopyIn(mem, data) ==
    LET n   == Min(Len(data), maxMemSize)
        dom == (DOMAIN mem \ (0..(n - 1))) \cup {x \in 0..(n - 1) : data[x + 1] # 0}
    IN  [x \in dom |-> IF x < n THEN data[x + 1] ELSE mem[x]]

-----------------------------------------------------------------------------
(* package cpu: the CPU.  s.state is "idle" before Run, "running" inside   *)
(* Run's loop, "exit" when Run returned nil, "error" when it returned an   *)
(* error (s.err), "panic" when an index went out of range.                 *)

\* CPU.Reset: registers, IP and stack; flags and memory are not assigned.
Reset(s) ==
    [s EXCEPT !.regs = [i \in 0..(NumRegs - 1) |-> NewRegister],
              !.ip = 0,
              !.stack = <<>>]

\* NewCPU: the zero value of the struct, then Reset.
NewCPU ==
    Reset([regs |-> <<>>, z |-> FALSE, mem |-> <<>>, ip |-> 0, stack |-> <<>>,
           out |-> <<>>, state |-> "idle", err |-> ""])

\* LoadBytes copying one byte too many, a NOP behind the program.
LoadBytes_copiesOneMore(s, data) ==
    LET s1 == Reset(s) IN [s1 EXCEPT !.mem = MemCopyIn(s1.mem, data \o <<NOP>>)]

\* CPU.LoadBytes
LoadBytes(s, data) ==
    LET s1 == Reset(s) IN [s1 EXCEPT !.mem = MemCopyIn(s1.mem, data)]

\* CPU.ReadFile: the CPU afterwards and the error returned ("" for nil).
\* A file is unreadable, or has size bytes, the first of them being data
\* and the others 0.
ReadFile(s, file) ==
    IF ~file.readable THEN [cpu |-> s, err |-> "failed to read file"]
    ELSE IF file.size >= maxMemSize
    THEN [cpu |-> s, err |-> "program is too large for memory"]
    ELSE [cpu |-> LoadBytes(s, file.data), err |-> ""]

\* The steps of an instruction thread a working copy of the CPU that also
\* holds the locals read so far (w.a); a step does nothing once Run has
\* returned or panicked.
Work(s) ==
    [regs |-> s.regs, z |-> s.z, mem |-> s.mem, ip |-> s.ip, stack |-> s.stack,
     out |-> s.out, state |-> s.state, err |-> s.err, a |-> <<>>]

Done(w) ==
    [regs |-> w.regs, z |-> w.z, mem |-> w.mem, ip |-> w.ip, stack |-> w.stack,
     out |-> w.out, state |-> w.state, err |-> w.err]

Live(w) == w.state = "running"

\* return fmt.Errorf(...)
fail(w, kind) == IF Live(w) THEN [w EXCEPT !.state = "error", !.err = kind] ELSE w

\* An index expression out of range.
panic(w) == IF Live(w) THEN [w EXCEPT !.state = "panic", !.err = "index out of range"] ELSE w

local(w, v) == IF Live(w) THEN [w EXCEPT !.a = Append(w.a, v)] ELSE w

\* c.ip++
incIP(w) == IF Live(w) THEN [w EXCEPT !.ip = w.ip + 1] ELSE w

\* int(c.mem[c.ip]) into a local.
fetch(w) ==
    IF ~Live(w) THEN w
    ELSE IF w.ip >= maxMemSize THEN panic(w)
    ELSE local(w, MemAt(w.mem, w.ip))

\* The last local, and the locals before it.
last(w) == w.a[Len(w.a)]

front(w) == SubSeq(w.a, 1, Len(w.a) - 1)

\* The range check made after the flag has been cleared.
checkReg_afterClearingZ(w) ==
    IF ~Live(w) THEN w
    ELSE IF last(w) >= NumRegs THEN fail([w EXCEPT !.z = FALSE], "register out of range")
    ELSE w

\* if reg >= len(c.regs) { return err }, reg being the last local
checkReg(w) ==
    IF ~Live(w) THEN w
    ELSE IF last(w) >= NumRegs THEN fail(w, "register out of range")
    ELSE w

\* c.ip++; reg := int(c.mem[c.ip]); if reg >= len(c.regs) { return err }
regOperand(w) == checkReg(fetch(incIP(w)))

\* return r + q*256, r and q being the last two locals
lowHighValue(w) ==
    IF ~Live(w) THEN w
    ELSE [w EXCEPT !.a = Append(SubSeq(w.a, 1, Len(w.a) - 2),
                                w.a[Len(w.a) - 1] + w.a[Len(w.a)] * 256)]

\* CPU.readInt: two bytes at IP, low byte first, into one local.
cpuReadInt(w) == lowHighValue(incIP(fetch(incIP(fetch(w)))))

\* The index readStr uses for the i-th byte: ip + i, and 0 when that is
\* exactly maxMemSize.
strIndex(ip, i) == IF ip + i = maxMemSize THEN 0 ELSE ip + i

\* string(b) of a byte b is the UTF-8 encoding of the code point b: one
\* byte below 0x80, two bytes from 0x80 on.
runeBytes(b) == IF b < 128 THEN <<b>> ELSE <<192 + (b \div 64), 128 + (b % 64)>>

\* Where the encoding of the i-th byte starts in the string built from bs.
runeStart(bs, i) == i + Cardinality({j \in 1..(i - 1) : bs[j] >= 128})

\* The k-th byte of that string, i being the byte of bs it encodes.
runeByteAt(bs, k, i) == runeBytes(bs[i])[k - runeStart(bs, i) + 1]

\* str += string(c.mem[tmpIP]) over the bytes bs read from memory.
stringOfBytes(bs) ==
    IF \A i \in DOMAIN bs : bs[i] < 128 THEN bs
    ELSE [k \in 1..(runeStart(bs, Len(bs) + 1) - 1) |->
             runeByteAt(bs, k, CHOOSE i \in DOMAIN bs :
                                  runeStart(bs, i) <= k /\ k < runeStart(bs, i + 1))]

\* readStr after readInt gave strLen, the last local: the local becomes
\* the string.
readStrBytes(w) ==
    IF ~Live(w) THEN w
    ELSE IF last(w) >= maxMemSize THEN fail(w, "string too large")
    ELSE IF \E i \in 0..(last(w) - 1) : strIndex(w.ip, i) >= maxMemSize THEN panic(w)
    ELSE [w EXCEPT !.a = Append(front(w), stringOfBytes([i \in 1..last(w) |->
                                              MemAt(w.mem, strIndex(w.ip, i - 1))])),
                   !.ip = w.ip + last(w)]

\* CPU.readStr: the length, then that many bytes, into one local.
cpuReadStr(w) == readStrBytes(cpuReadInt(w))

\* val, err := c.regs[r].GetInt(); if err != nil { return err }
getInt(w, r) ==
    IF ~Live(w) THEN w
    ELSE IF Type(w.regs[r]) = "int" THEN local(w, w.regs[r].v)
    ELSE fail(w, "type mismatch")

\* str, err := c.regs[r].GetStr(); if err != nil { return err }
getStr(w, r) ==
    IF ~Live(w) THEN w
    ELSE IF Type(w.regs[r]) = "str" THEN local(w, w.regs[r].v)
    ELSE fail(w, "type mismatch")

\* c.regs[r].SetInt(v) and c.regs[r].SetStr(v)
setInt(w, r, v) == IF Live(w) THEN [w EXCEPT !.regs[r] = SetInt(v)] ELSE w

setStr(w, r, v) == IF Live(w) THEN [w EXCEPT !.regs[r] = SetStr(v)] ELSE w

\* GetInt and GetStr of the register named by the i-th local.
getIntAt(w, i) == getInt(w, w.a[i])

getStrAt(w, i) == getStr(w, w.a[i])

setZ(w, b) == IF Live(w) THEN [w EXCEPT !.z = b] ELSE w

\* c.STDOUT.WriteString(...) and Flush
write(w, bytes) == IF Live(w) THEN [w EXCEPT !.out = w.out \o bytes] ELSE w

-----------------------------------------------------------------------------
(* Formatting and arithmetic                                               *)

hexDigits == <<"0", "1", "2", "3", "4", "5", "6", "7", "8", "9",
               "a", "b", "c", "d", "e", "f">>

\* The last `width` lowercase hexadecimal digits of v, most significant
\* first (v has no more than `width` digits where this is used).
RECURSIVE hex(_, _)
hex(v, width) ==
    IF width = 0 THEN <<>>
    ELSE Append(hex(v \div 16, width - 1), hexDigits[(v % 16) + 1])

\* fmt.Sprintf("%02x", val) when val < 256, fmt.Sprintf("%04x", val) otherwise
formatHex(val) == IF val < 256 THEN hex(val, 2) ELSE hex(val, 4)

\* fmt.Sprintf("%d", i) for i >= 0
RECURSIVE decimal(_)
decimal(i) ==
    IF i < 10 THEN <<hexDigits[i + 1]>>
    ELSE Append(decimal(i \div 10), hexDigits[(i % 10) + 1])

\* The character of a byte; bytes outside printable ASCII are no digit and
\* no sign, which is all Atoi asks.
Chr(b) == IF b >= 32 /\ b <= 126 THEN Printable[b - 31] ELSE NUL

Chars(bytes) == [i \in 1..Len(bytes) |-> Chr(bytes[i])]

\* aVal * bVal; a product beyond the register range is reported as
\* maxMemSize + 1 (SetInt stores maxMemSize for both).
Mul(x, y) == IF y # 0 /\ x > maxMemSize \div y THEN maxMemSize + 1 ELSE x * y

RECURSIVE BitAnd(_, _)
BitAnd(x, y) ==
    IF x = 0 \/ y = 0 THEN 0
    ELSE (x % 2) * (y % 2) + 2 * BitAnd(x \div 2, y \div 2)

RECURSIVE BitOr(_, _)
BitOr(x, y) ==
    IF x = 0 THEN y ELSE IF y = 0 THEN x
    ELSE (IF x % 2 = 1 \/ y % 2 = 1 THEN 1 ELSE 0) + 2 * BitOr(x \div 2, y \div 2)

RECURSIVE BitXor(_, _)
BitXor(x, y) ==
    IF x = 0 THEN y ELSE IF y = 0 THEN x
    ELSE (((x % 2) + (y % 2)) % 2) + 2 * BitXor(x \div 2, y \div 2)

isSpaceByte(b) == b \in {9, 10, 11, 12, 13, 32}

\* strings.TrimSpace on ASCII bytes
RECURSIVE trimLeft(_)
trimLeft(s) == IF s # <<>> /\ isSpaceByte(Head(s)) THEN trimLeft(Tail(s)) ELSE s

RECURSIVE trimRight(_)
trimRight(s) ==
    IF s # <<>> /\ isSpaceByte(s[Len(s)]) THEN trimRight(SubSeq(s, 1, Len(s) - 1)) ELSE s

TrimSpace(s) == trimRight(trimLeft(s))

-----------------------------------------------------------------------------
(* CPU.Run: the cases of the switch.  Each takes the working CPU with IP   *)
(* at the opcode and gives it back after the case.                         *)

execEXIT(w) == [w EXCEPT !.state = "exit"]

\* c.regs[reg].SetInt(val), the locals being <<reg, val>>
storeVal(w) == setInt(w, w.a[1], w.a[2])

execINT_STORE(w) == storeVal(cpuReadInt(incIP(regOperand(w))))

printVal(w) == write(w, Bytes(formatHex(w.a[2])))

execINT_PRINT(w) == incIP(printVal(getIntAt(regOperand(w), 1)))

\* INT_TO_STR storing the digits of the integer in reverse.
storeDecimal_reversed(w) ==
    setStr(w, w.a[1], [i \in 1..Len(decimal(w.a[2])) |->
                          Bytes(decimal(w.a[2]))[Len(decimal(w.a[2])) + 1 - i]])

storeDecimal(w) == setStr(w, w.a[1], Bytes(decimal(w.a[2])))

execINT_TO_STR(w) == incIP(storeDecimal(getIntAt(regOperand(w), 1)))

storeRand(w, rnd) == setInt(w, w.a[1], rnd)

\* r.Intn(maxMemSize): rnd is the number drawn.
execINT_RAND(w, rnd) == incIP(storeRand(regOperand(w), rnd))

\* c.ip = addr when taken holds, the locals being <<addr>>
jump(w, taken) == IF Live(w) /\ taken THEN [w EXCEPT !.ip = w.a[1]] ELSE w

jumpZ(w) == jump(w, w.z)

jumpNZ(w) == jump(w, ~w.z)

execJMP(w) == jump(cpuReadInt(incIP(w)), TRUE)

execJMP_Z(w) == jumpZ(cpuReadInt(incIP(w)))

execJMP_NZ(w) == jumpNZ(cpuReadInt(incIP(w)))

\* The prologue of ADD, SUB, MUL, DIV, AND, OR, XOR: the registers res, a
\* and b, c.ip++, then aVal and bVal; the locals are <<res, a, b, aVal, bVal>>.
intOperands(w) ==
    getIntAt(getIntAt(incIP(regOperand(regOperand(regOperand(w)))), 2), 3)

storeSum(w) == setInt(w, w.a[1], w.a[4] + w.a[5])

execADD(w) == storeSum(intOperands(w))

storeDifference(w) == setInt(w, w.a[1], w.a[4] - w.a[5])

\* SUB's flag update testing for a negative result only.
subFlag_negativeOnly(w) == IF Live(w) /\ w.regs[w.a[1]].v < 0 THEN setZ(w, TRUE) ELSE w

\* SUB's flag update: the zero flag is set when the stored result is <= 0;
\* there is no branch that clears it.
subFlag(w) == IF Live(w) /\ w.regs[w.a[1]].v <= 0 THEN setZ(w, TRUE) ELSE w

execSUB(w) == subFlag(storeDifference(intOperands(w)))

storeProduct(w) == setInt(w, w.a[1], Mul(w.a[4], w.a[5]))

execMUL(w) == storeProduct(intOperands(w))

storeQuotient(w) ==
    IF Live(w) /\ w.a[5] = 0 THEN fail(w, "division by zero")
    ELSE setInt(w, w.a[1], w.a[4] \div w.a[5])

execDIV(w) == storeQuotient(intOperands(w))

\* INC and DEC after GetInt, the locals being <<reg, i>>: the new i wraps
\* around, then c.flags.z = i == 0 and SetInt(i).
storeCounter(w, i) == setInt(setZ(w, i = 0), w.a[1], i)

\* INC without the wrap at maxMemSize.
increment_withoutWrap(w) == storeCounter(w, w.a[2] + 1)

increment(w) == storeCounter(w, IF w.a[2] = maxMemSize THEN 0 ELSE w.a[2] + 1)

decrement(w) == storeCounter(w, IF w.a[2] = 0 THEN maxMemSize ELSE w.a[2] - 1)

execINC(w) == incIP(increment(getIntAt(regOperand(w), 1)))

execDEC(w) == incIP(decrement(getIntAt(regOperand(w), 1)))

storeAnd(w) == setInt(w, w.a[1], BitAnd(w.a[4], w.a[5]))

execAND(w) == storeAnd(intOperands(w))

storeOr(w) == setInt(w, w.a[1], BitOr(w.a[4], w.a[5]))

execOR(w) == storeOr(intOperands(w))

storeXor(w) == setInt(w, w.a[1], BitXor(w.a[4], w.a[5]))

execXOR(w) == storeXor(intOperands(w))

\* c.regs[reg].SetStr(str), the locals being <<reg, str>>
storeStr(w) == setStr(w, w.a[1], w.a[2])

execSTR_STORE(w) == storeStr(cpuReadStr(incIP(regOperand(w))))

printStr(w) == write(w, w.a[2])

execSTR_PRINT(w) == incIP(printStr(getStrAt(regOperand(w), 1)))

storeConcat(w) == setStr(w, w.a[1], w.a[4] \o w.a[5])

execCONCAT(w) ==
    storeConcat(getStrAt(getStrAt(incIP(regOperand(regOperand(regOperand(w)))), 2), 3))

\* SYSTEM after GetStr: what the command does is the environment's choice
\* (sys): it fails, the process panics (no argument, or output written to
\* the nil buffer), or both nil buffers are printed.
system(w, sys) ==
    IF sys = "error" THEN fail(w, "error invoking system")
    ELSE IF sys = "panic" THEN panic(w)
    ELSE write(w, Bytes(<<"<", "n", "i", "l", ">", "\n", "<", "n", "i", "l", ">", "\n">>))

\* IP stays at the register byte.
execSYSTEM(w, sys) == system(getStrAt(regOperand(w), 1), sys)

\* STR_TO_INT after GetStr and Atoi, the locals being <<reg, s>>.
storeAtoi(w, r) ==
    IF Live(w) /\ ~r.ok THEN fail(w, "failed to convert string to int")
    ELSE setInt(w, w.a[1], r.val)

strToInt(w) == storeAtoi(w, Atoi(Chars(w.a[2])))

execSTR_TO_INT(w) == incIP(strToInt(getStrAt(regOperand(w), 1)))

\* c.flags.z of CMP_INT and CMP_STR, the locals being <<reg, val>>.
cmpVal(w, type) ==
    setZ(w, Type(w.regs[w.a[1]]) = type /\ w.regs[w.a[1]].v = w.a[2])

execCMP_INT(w) == cmpVal(cpuReadInt(incIP(regOperand(w))), "int")

execCMP_STR(w) == cmpVal(cpuReadStr(incIP(regOperand(w))), "str")

\* CMP_REG after c.flags.z = false: reg2 is read with the getter of reg1's
\* type.
cmpRegs(w) ==
    IF ~Live(w) THEN w
    ELSE IF Type(w.regs[w.a[1]]) # Type(w.regs[w.a[2]]) THEN fail(w, "type mismatch")
    ELSE incIP(setZ(w, w.regs[w.a[1]].v = w.regs[w.a[2]].v))

execCMP_REG(w) == cmpRegs(setZ(regOperand(regOperand(w)), FALSE))

isType(w, type) == setZ(w, Type(w.regs[w.a[1]]) = type)

execIS_INT(w) == isType(incIP(regOperand(w)), "int")

execIS_STR(w) == isType(incIP(regOperand(w)), "str")

\* NOP clearing the flag.
execNOP_clearsZ(w) == incIP(setZ(w, FALSE))

execNOP(w) == incIP(w)

\* REG_STORE after its two registers, the locals being <<dst, src>>.
copyReg(w) ==
    IF ~Live(w) THEN w
    ELSE IF Type(w.regs[w.a[2]]) = "int" THEN setInt(w, w.a[1], w.regs[w.a[2]].v)
    ELSE setStr(w, w.a[1], w.regs[w.a[2]].v)

\* IP stays at the source register's byte.
execREG_STORE(w) == copyReg(regOperand(regOperand(w)))

\* PEEK after GetInt, the locals being <<reg1, reg2, addr>>.
peek(w) ==
    IF Live(w) /\ w.a[3] >= maxMemSize THEN fail(w, "address out of range")
    ELSE setInt(w, w.a[1], MemAt(w.mem, w.a[3]))

execPEEK(w) == incIP(peek(getIntAt(regOperand(regOperand(w)), 2)))

\* POKE after the value was read, the locals being <<reg1, reg2, val>>.
pokeCheckVal(w) ==
    IF Live(w) /\ w.a[3] >= maxMemSize THEN fail(w, "value out of range") ELSE w

\* POKE storing the value without the conversion to a byte.
poke_storesWholeValue(w) ==
    IF ~Live(w) THEN w
    ELSE IF w.a[4] >= maxMemSize THEN fail(w, "address out of range")
    ELSE [w EXCEPT !.mem = MemSet(w.mem, w.a[4], w.a[3])]

\* POKE after the address was read, the locals being <<reg1, reg2, val, addr>>.
poke(w) ==
    IF ~Live(w) THEN w
    ELSE IF w.a[4] >= maxMemSize THEN fail(w, "address out of range")
    ELSE [w EXCEPT !.mem = MemSet(w.mem, w.a[4], w.a[3] % 256)]

\* IP stays at the address register's byte.
execPOKE(w) ==
    poke(getIntAt(pokeCheckVal(getIntAt(regOperand(regOperand(w)), 1)), 2))

\* MEM_CPY's loop without the reset of the cursors at maxMemSize.
RECURSIVE memCpyLoop_withoutWrap(_, _, _, _)
memCpyLoop_withoutWrap(mem, dstAddr, srcAddr, n) ==
    IF n = 0 THEN mem
    ELSE memCpyLoop_withoutWrap(MemSet(mem, dstAddr, MemAt(mem, srcAddr)),
                                dstAddr + 1, srcAddr + 1, n - 1)

\* MEM_CPY's loop, with n bytes left to copy.
RECURSIVE memCpyLoop(_, _, _, _)
memCpyLoop(mem, dstAddr, srcAddr, n) ==
    IF n = 0 THEN mem
    ELSE LET d == IF dstAddr >= maxMemSize THEN 0 ELSE dstAddr
             s == IF srcAddr >= maxMemSize THEN 0 ELSE srcAddr
         IN  memCpyLoop(MemSet(mem, d, MemAt(mem, s)), d + 1, s + 1, n - 1)

\* MEM_CPY after its reads, the locals being <<dst, src, lng, dstAddr,
\* srcAddr, length>>.
memCpy(w) ==
    IF ~Live(w) THEN w
    ELSE [w EXCEPT !.mem = memCpyLoop(w.mem, w.a[4], w.a[5], w.a[6])]

execMEM_CPY(w) ==
    incIP(memCpy(getIntAt(getIntAt(getIntAt(
        regOperand(regOperand(regOperand(w))), 1), 2), 3)))

\* c.stack.Push(val), the locals being <<reg, val>>
pushVal(w) == IF Live(w) THEN [w EXCEPT !.stack = Push(w.stack, w.a[2])] ELSE w

execPUSH(w) == pushVal(getIntAt(incIP(regOperand(w)), 1))

\* POP without the emptiness check: Stack.Pop's error is dropped and the
\* zero it returns is stored.
popReg_withoutEmptyCheck(w) ==
    IF ~Live(w) THEN w
    ELSE IF Empty(w.stack) THEN setInt(w, w.a[1], 0)
    ELSE setInt([w EXCEPT !.stack = Pop(w.stack).stack], w.a[1], Pop(w.stack).top)

\* POP after c.ip++, the locals being <<reg>>.
popReg(w) ==
    IF ~Live(w) THEN w
    ELSE IF Empty(w.stack) THEN fail(w, "stackunderflow")
    ELSE setInt([w EXCEPT !.stack = Pop(w.stack).stack], w.a[1], Pop(w.stack).top)

execPOP(w) == popReg(incIP(regOperand(w)))

\* CALL pushing the address of its operand instead of the one after it.
call_pushesOperandAddress(w) ==
    IF Live(w) THEN [w EXCEPT !.stack = Push(w.stack, w.ip - 2), !.ip = w.a[1]] ELSE w

\* c.stack.Push(c.ip); c.ip = addr, the locals being <<addr>>
call(w) ==
    IF Live(w) THEN [w EXCEPT !.stack = Push(w.stack, w.ip), !.ip = w.a[1]] ELSE w

\* CALL pushes the IP after the address operand.
execCALL(w) == call(cpuReadInt(incIP(w)))

execRET(w) ==
    IF Empty(w.stack) THEN fail(w, "stackunderflow")
    ELSE [w EXCEPT !.stack = Pop(w.stack).stack, !.ip = Pop(w.stack).top]

\* traps.go: StrLenTrap, ReadStringTrap (stdin is what STDIN.ReadString
\* gives: an error, or a line), RemoveNewLineTrap, and TrapNOP for every
\* other number.
\* StrLenTrap storing the length into register 1.
storeLen_intoRegisterOne(w) == setInt(w, 1, Len(last(w)))

\* c.regs[0].SetInt(len(str)), str being the last local
storeLen(w) == setInt(w, 0, Len(last(w)))

StrLenTrap(w) == storeLen(getStr(w, 0))

ReadStringTrap(w, stdin) ==
    IF stdin.eof THEN fail(w, "read error") ELSE setStr(w, 0, stdin.line)

storeTrimmed(w) == setStr(w, 0, TrimSpace(last(w)))

RemoveNewLineTrap(w) == storeTrimmed(getStr(w, 0))

TrapNOP(w) == fail(w, "trap function not defined")

\* TRAP without the test of the trap number against the table's length.
trap_withoutRangeCheck(w, stdin) ==
    IF ~Live(w) THEN w
    ELSE IF w.a[1] = 0 THEN StrLenTrap(w)
    ELSE IF w.a[1] = 1 THEN ReadStringTrap(w, stdin)
    ELSE IF w.a[1] = 2 THEN RemoveNewLineTrap(w)
    ELSE TrapNOP(w)

\* TRAP after readInt, the locals being <<num>>.
trap(w, stdin) ==
    IF ~Live(w) THEN w
    ELSE IF w.a[1] < 0 \/ w.a[1] >= maxMemSize THEN fail(w, "invalid trap number")
    ELSE IF w.a[1] = 0 THEN StrLenTrap(w)
    ELSE IF w.a[1] = 1 THEN ReadStringTrap(w, stdin)
    ELSE IF w.a[1] = 2 THEN RemoveNewLineTrap(w)
    ELSE TrapNOP(w)

execTRAP(w, stdin) == trap(cpuReadInt(incIP(w)), stdin)

\* The switch on the opcode; e is what the environment decides in this
\* step (e.rnd, e.sys, e.stdin).
exec(op, w, e) ==
    CASE op = EXIT -> execEXIT(w)
      [] op = INT_STORE -> execINT_STORE(w)
      [] op = INT_PRINT -> execINT_PRINT(w)
      [] op = INT_TO_STR -> execINT_TO_STR(w)
      [] op = INT_RAND -> execINT_RAND(w, e.rnd)
      [] op = JMP -> execJMP(w)
      [] op = JMP_Z -> execJMP_Z(w)
      [] op = JMP_NZ -> execJMP_NZ(w)
      [] op = ADD -> execADD(w)
      [] op = SUB -> execSUB(w)
      [] op = MUL -> execMUL(w)
      [] op = DIV -> execDIV(w)
      [] op = INC -> execINC(w)
      [] op = DEC -> execDEC(w)
      [] op = AND -> execAND(w)
      [] op = OR -> execOR(w)
      [] op = XOR -> execXOR(w)
      [] op = STR_STORE -> execSTR_STORE(w)
      [] op = STR_PRINT -> execSTR_PRINT(w)
      [] op = CONCAT -> execCONCAT(w)
      [] op = SYSTEM -> execSYSTEM(w, e.sys)
      [] op = STR_TO_INT -> execSTR_TO_INT(w)
      [] op = CMP_INT -> execCMP_INT(w)
      [] op = CMP_STR -> execCMP_STR(w)
      [] op = CMP_REG -> execCMP_REG(w)
      [] op = IS_INT -> execIS_INT(w)
      [] op = IS_STR -> execIS_STR(w)
      [] op = NOP -> execNOP(w)
      [] op = REG_STORE -> execREG_STORE(w)
      [] op = PEEK -> execPEEK(w)
      [] op = POKE -> execPOKE(w)
      [] op = MEM_CPY -> execMEM_CPY(w)
      [] op = PUSH -> execPUSH(w)
      [] op = POP -> execPOP(w)
      [] op = CALL -> execCALL(w)
      [] op = RET -> execRET(w)
      [] op = TRAP -> execTRAP(w, e.stdin)
      [] OTHER -> fail(w, "unknown opcode")

\* Run's loop without the reset of the instruction pointer.
wrapIP_withoutReset(w) == w

\* if c.ip > maxMemSize { c.ip = 0 }, after the switch
wrapIP(w) ==
    IF w.state \in {"running", "exit"} /\ w.ip > maxMemSize THEN [w EXCEPT !.ip = 0] ELSE w

\* Run's loop looking at the context after the switch instead of before it.
runStep_checksContextLast(s, e) ==
    IF s.ip >= maxMemSize
    THEN [s EXCEPT !.state = "error", !.err = "reading beyond RAM"]
    ELSE IF e.done
    THEN [Done(wrapIP(exec(MemAt(s.mem, s.ip), Work(s), e)))
             EXCEPT !.state = "error", !.err = "timeout during execution"]
    ELSE Done(wrapIP(exec(MemAt(s.mem, s.ip), Work(s), e)))

\* One iteration of Run's loop; e.done says whether c.ctx.Done() is
\* closed when the select is reached.
runStep(s, e) ==
    IF s.ip >= maxMemSize
    THEN [s EXCEPT !.state = "error", !.err = "reading beyond RAM"]
    ELSE IF e.done
    THEN [s EXCEPT !.state = "error", !.err = "timeout during execution"]
    ELSE Done(wrapIP(exec(MemAt(s.mem, s.ip), Work(s), e)))

-----------------------------------------------------------------------------
(* Bounds and inputs                                                       *)

\* Longest input text handed to the lexer under test.
MaxInput == 3

\* How far past the end of its input the lexer under test is followed.
MaxPastEnd == 2

\* Most statements of a generated program (label programs), and of the
\* body of a called routine.
MaxStmts == 3

MaxBody == 2

\* Most instructions of a generated memory image.
MaxInstr == 3

\* Most iterations of Run's loop that are followed, over all calls of Run.
MaxSteps == 64

\* Most calls of Run and of Reset on the CPU under test.
MaxRuns == 2

MaxResets == 1

\* Most calls of LoadBytes on one CPU.
MaxLoads == 2

\* Most file arguments of the execute command.
MaxFiles == 2

SeqsUpTo(S, n) == UNION {[1..k -> S] : k \in 0..n}

RECURSIVE Flatten(_)
Flatten(ss) == IF ss = <<>> THEN <<>> ELSE Head(ss) \o Flatten(Tail(ss))

LexAlphabet == {"a", "1", "#", "\"", "\\", ",", ":", " ", "\n", NUL}

LexInputs == SeqsUpTo(LexAlphabet, MaxInput)

-----------------------------------------------------------------------------
(* Programs: the source texts handed to the run command.  A program is   *)
(* a record [kind, r, v, x, body]; Source gives its text.                  *)

\* examples/poke.in, its comments and blank lines left out.
PokeSource ==
    <<"s", "t", "o", "r", "e", " ", "#", "1", ",", " ", "0", "x", "5",
      "0", "\n", "s", "t", "o", "r", "e", " ", "#", "2", ",", " ", "0",
      "x", "5", "0", "0", "0", "\n", "p", "o", "k", "e", " ", "#", "1",
      ",", " ", "#", "2", "\n", "s", "t", "o", "r", "e", " ", "#", "1",
      ",", " ", "0", "\n", "s", "t", "o", "r", "e", " ", "#", "2", ",",
      " ", "0", "x", "5", "0", "0", "1", "\n", "p", "o", "k", "e", " ",
      "#", "1", ",", " ", "#", "2", "\n", "j", "m", "p", " ", "0", "x",
      "5", "0", "0", "0", "\n">>

\* examples/loop.in from "store #1, 11" to "jmp_nz repeat".
LoopSource ==
    <<"s", "t", "o", "r", "e", " ", "#", "1", ",", " ", "1", "1", "\n",
      "s", "t", "o", "r", "e", " ", "#", "2", ",", " ", "1", "\n", ":",
      "r", "e", "p", "e", "a", "t", "\n", "s", "u", "b", " ", "#", "1",
      ",", " ", "#", "1", ",", " ", "#", "2", "\n", "p", "r", "i", "n",
      "t", "_", "i", "n", "t", " ", "#", "1", "\n", "s", "t", "o", "r",
      "e", " ", "#", "5", ",", " ", "\"", "\\", "n", "\"", "\n", "p",
      "r", "i", "n", "t", "_", "s", "t", "r", " ", "#", "5", "\n", "j",
      "m", "p", "_", "n", "z", " ", "r", "e", "p", "e", "a", "t", "\n">>

\* examples/call.in
CallSource ==
    <<"s", "t", "o", "r", "e", " ", "#", "1", ",", " ", "1", "5", "\n",
      "c", "a", "l", "l", " ", "p", "r", "i", "n", "t", "\n", "s", "t",
      "o", "r", "e", " ", "#", "1", ",", " ", "6", "\n", "c", "a", "l",
      "l", " ", "p", "r", "i", "n", "t", "\n", "s", "t", "o", "r", "e",
      " ", "#", "1", ",", " ", "2", "5", "5", "\n", "c", "a", "l", "l",
      " ", "p", "r", "i", "n", "t", "\n", "e", "x", "i", "t", "\n", ":",
      "p", "r", "i", "n", "t", "\n", "p", "r", "i", "n", "t", "_", "i",
      "n", "t", " ", "#", "1", "\n", "s", "t", "o", "r", "e", " ", "#",
      "1", ",", " ", "\"", "\\", "n", "\"", "\n", "p", "r", "i", "n",
      "t", "_", "s", "t", "r", " ", "#", "1", "\n", "r", "e", "t", "\n">>

\* The statements the label programs are made of.
LabelStmts ==
    <<<<":", "a", "\n">>,
      <<":", "b", "\n">>,
      <<"j", "m", "p", " ", "a", "\n">>,
      <<"j", "m", "p", "_", "z", " ", "b", "\n">>,
      <<"j", "m", "p", "_", "n", "z", " ", "a", "\n">>,
      <<"c", "a", "l", "l", " ", "b", "\n">>,
      <<"s", "t", "o", "r", "e", " ", "#", "1", ",", " ", "a", "\n">>,
      <<"c", "m", "p", " ", "#", "1", ",", " ", "b", "\n">>,
      <<"n", "o", "p", "\n">>>>

\* The statements the body of a called routine is made of.
BodyStmts ==
    <<<<"p", "u", "s", "h", " ", "#", "2", "\n">>,
      <<"p", "o", "p", " ", "#", "1", "\n">>,
      <<"n", "o", "p", "\n">>,
      <<"c", "a", "l", "l", " ", "M", "\n">>>>

\* The operands of "store" in the push/store/pop programs: an integer, a
\* string, two registers and a label.
StoreOperands ==
    <<<<"2", "5", "5">>,
      <<"\"", "a", "b", "\"">>,
      <<"#", "0">>,
      <<"#", "2">>,
      <<"l", "a", "b">>>>

\* Statements whose operand is not one the mnemonic accepts, each followed
\* by an exit.
MalformedStmts ==
    <<<<"j", "m", "p", " ", ",">>,
      <<"j", "m", "p", "_", "z", " ", ",">>,
      <<"j", "m", "p", "_", "n", "z", " ", "\"", "s", "\"">>,
      <<"c", "a", "l", "l", " ", ",">>,
      <<"t", "r", "a", "p", " ", "a">>,
      <<"d", "a", "t", "a", " ", ",">>,
      <<"d", "b", " ", "#", "1">>,
      <<"s", "t", "o", "r", "e", " ", "1", ",", " ", "2">>,
      <<"i", "n", "c", " ", ",">>>>

txtExit == <<"\n", "e", "x", "i", "t", "\n">>

\* The integer operands of the data programs, as written and as meant.
DataLits ==
    <<<<"0">>, <<"7">>, <<"2", "5", "5">>, <<"2", "5", "6">>, <<"0", "x", "1", "F", "F">>>>

DataVals == <<0, 7, 255, 256, 511>>

\* The string operands of the data programs.
DataStrs == <<<<>>, <<"a", ",", "b">>, <<"7">>>>

\* The longest list of integer operands.
MaxData == 3

DataKeywords == <<<<"d", "a", "t", "a", " ">>, <<"d", "b", " ">>>>

\* v1, v2, ..., vk
RECURSIVE DataList(_)
DataList(body) ==
    IF Len(body) = 1 THEN DataLits[body[1]]
    ELSE DataLits[body[1]] \o <<",", " ">> \o DataList(Tail(body))

txtNop == <<"\n", "n", "o", "p">>

\* The string operands of the store/cmp programs as written between the
\* quotes, and the bytes of the strings they stand for.
StrLits == <<<<>>, <<"a", "b">>, <<"a", "\\", "n">>, <<EACUTE>>>>

StrVals == <<<<>>, <<97, 98>>, <<97, 10>>, <<195, 169>>>>

txtCmp == <<"c", "m", "p", " ", "#">>

quoted(s) == <<",", " ", "\"">> \o s \o <<"\"">>

NoProg == [kind |-> "none", r |-> 0, v |-> 0, x |-> 0, body |-> <<>>]

Prog(kind, r, v, x, body) == [kind |-> kind, r |-> r, v |-> v, x |-> x, body |-> body]

\* The literals of the store/print programs.
Literals == {0, 10, 255, 256, 4660, 65534, 65535, 65536, 65546, 131071}

Programs ==
    {Prog("poke", 0, 0, 0, <<>>), Prog("loop", 0, 0, 0, <<>>), Prog("call", 0, 0, 0, <<>>)}
    \cup {Prog("labels", 0, 0, 0, b) : b \in SeqsUpTo(1..Len(LabelStmts), MaxStmts)}
    \cup {Prog("routine", 0, v, 0, b) : v \in {0, 13}, b \in SeqsUpTo(1..Len(BodyStmts), MaxBody)}
    \cup {Prog("pushpop", r, v, x, <<>>) : r \in {1, 14}, v \in {9, 300}, x \in 1..Len(StoreOperands)}
    \cup {Prog("print", r, v, 0, <<>>) : r \in {0, 14}, v \in Literals}
    \cup {Prog("malformed", 0, 0, x, <<>>) : x \in 1..Len(MalformedStmts)}
    \cup {Prog("register", r, 0, 0, <<>>) : r \in {0, 14, 15, 16}}
    \cup {Prog("data", r, 0, 0, b) : r \in 1..2,
              b \in SeqsUpTo(1..Len(DataLits), MaxData) \ {<<>>}}
    \cup {Prog("data", r, 0, x, <<>>) : r \in 1..2, x \in 1..Len(DataStrs)}
    \cup {Prog("string", r, 0, x, <<>>) : r \in {1, 14}, x \in 1..Len(StrLits)}

txtStore == <<"s", "t", "o", "r", "e", " ", "#">>

txtPush == <<"p", "u", "s", "h", " ", "#">>

txtPop == <<"p", "o", "p", " ", "#">>

txtInc == <<"i", "n", "c", " ", "#">>

txtPrintInt == <<"p", "r", "i", "n", "t", "_", "i", "n", "t", " ", "#">>

txtRoutine == <<"\n", "c", "a", "l", "l", " ", "L", "\n", "e", "x", "i", "t", "\n",
      ":", "L", "\n">>

txtRet == <<"r", "e", "t", "\n", ":", "M", "\n", "r", "e", "t", "\n">>

txtLab == <<":", "l", "a", "b", "\n">>

Source(p) ==
    CASE p.kind = "poke" -> PokeSource
      [] p.kind = "loop" -> LoopSource
      [] p.kind = "call" -> CallSource
      [] p.kind = "malformed" -> MalformedStmts[p.x] \o txtExit
      [] p.kind = "register" -> txtInc \o decimal(p.r) \o txtExit
      [] p.kind = "string" ->
            txtStore \o decimal(p.r) \o quoted(StrLits[p.x]) \o <<"\n">>
            \o txtCmp \o decimal(p.r) \o quoted(StrLits[p.x]) \o txtExit
      [] p.kind = "data" ->
            DataKeywords[p.r]
            \o (IF p.x = 0 THEN DataList(p.body) ELSE <<"\"">> \o DataStrs[p.x] \o <<"\"">>)
            \o txtNop \o txtExit
      [] p.kind = "labels" -> Flatten([i \in 1..Len(p.body) |-> LabelStmts[p.body[i]]])
      [] p.kind = "routine" ->
            txtStore \o <<"2", ",", " ">> \o decimal(p.v) \o txtRoutine
            \o Flatten([i \in 1..Len(p.body) |-> BodyStmts[p.body[i]]]) \o txtRet
      [] p.kind = "pushpop" ->
            txtStore \o decimal(p.r) \o <<",", " ">> \o decimal(p.v) \o <<"\n">>
            \o txtPush \o decimal(p.r) \o <<"\n">>
            \o txtStore \o decimal(p.r) \o <<",", " ">> \o StoreOperands[p.x] \o <<"\n">>
            \o txtPop \o decimal(p.r) \o <<"\n">> \o txtLab
      [] p.kind = "print" ->
            txtStore \o decimal(p.r) \o <<",", " ">> \o decimal(p.v) \o <<"\n">>
            \o txtPrintInt \o decimal(p.r) \o <<"\n">>
      [] OTHER -> <<>>

-----------------------------------------------------------------------------
(* Memory images handed to LoadBytes on the CPU under test.                *)

Palette ==
    {<<INT_STORE, 1, 255, 255>>, <<INT_STORE, 2, 1, 0>>, <<ADD, 0, 1, 2>>,
     <<SUB, 0, 2, 1>>, <<SUB, 3, 1, 2>>, <<MUL, 0, 1, 1>>, <<INC, 1>>, <<DEC, 2>>,
     <<CMP_INT, 2, 0, 0>>, <<JMP_Z, 0, 1>>, <<JMP_NZ, 0, 1>>,
     <<STR_STORE, 4, 1, 0, 55>>, <<STR_TO_INT, 4>>, <<PUSH, 1>>, <<POP, 3>>,
     <<INT_RAND, 5>>, <<TRAP, 0, 0>>, <<IS_INT, 4>>}

\* Images longer than MaxInstr instructions: Z set by a SUB, then a SUB
\* with a positive result, then a conditional jump.
LongImages ==
    {<<INT_STORE, 2, 5, 0>> \o <<SUB, 0, 0, 0>> \o <<SUB, 1, 2, 0>> \o <<JMP_Z, 0, 1>>,
     <<INT_STORE, 2, 5, 0>> \o <<SUB, 0, 0, 0>> \o <<SUB, 1, 2, 0>> \o <<JMP_NZ, 0, 1>>}

Images == {Flatten(s) : s \in SeqsUpTo(Palette, MaxInstr)} \cup LongImages

\* Images for the edges of the machine: strings that run to the end of
\* memory or hold bytes from 0x80 on, an opcode poked to the last byte of
\* memory and jumped to, comparisons of registers of either type, every
\* kind of trap number, programs without EXIT.
EdgeImages ==
    {<<>>, <<NOP>>, <<INC, 1>>, <<CMP_INT, 2, 0, 0>>, <<JMP, 255, 255>>,
     <<STR_STORE, 1, 254, 255>>,
     <<STR_STORE, 4, 1, 0, 200>>,
     <<STR_STORE, 4, 2, 0, 55, 56>> \o <<CMP_STR, 4, 2, 0, 55, 56>>,
     <<CMP_STR, 4, 253, 255>>,
     <<INT_STORE, 1, INC, 0>> \o <<INT_STORE, 4, 254, 255>> \o <<POKE, 1, 4>>
        \o <<5>> \o <<JMP, 254, 255>>,
     <<STR_STORE, 4, 1, 0, 55>> \o <<CMP_REG, 0, 4>>,
     <<STR_STORE, 4, 1, 0, 55>> \o <<CMP_REG, 4, 0>>,
     <<STR_STORE, 4, 1, 0, 55>> \o <<STR_STORE, 5, 1, 0, 55>> \o <<CMP_REG, 4, 5>>,
     <<INC, 1>> \o <<CMP_REG, 1, 2>>,
     <<CMP_REG, 1, 2>>,
     <<TRAP, 0, 0>>, <<STR_STORE, 0, 2, 0, 55, 10>> \o <<TRAP, 0, 0>>,
     <<TRAP, 1, 0>>, <<STR_STORE, 0, 2, 0, 55, 10>> \o <<TRAP, 2, 0>>,
     <<TRAP, 3, 0>>, <<TRAP, 254, 255>>, <<TRAP, 255, 255>>}

-----------------------------------------------------------------------------
(* History: what the step just taken did, for the formulas that relate a   *)
(* state to the one before it.                                             *)

NoOp == 0 - 1

NoObs == [pending |-> FALSE, atEntryDepth |-> FALSE, intact |-> FALSE, ret |-> 0, base |-> 0]

H0 ==
    [sawEOF |-> FALSE, prog |-> NoProg, defs |-> <<>>, last |-> "init", op |-> NoOp,
     ip0 |-> 0, regs0 |-> <<>>, zf |-> "none", calls |-> <<>>, obs |-> NoObs,
     steps |-> 0, runs |-> 0, resets |-> 0, loaded |-> FALSE,
     loads |-> 0, image |-> <<>>, prev |-> <<>>, warned |-> {},
     args |-> <<>>, status |-> "none", readErr |-> FALSE, trace |-> FALSE,
     limit |-> MaxSteps, written |-> {}, rewritten |-> {}]

\* The history after one iteration of Run's loop took the CPU from s to s2.
\*   zf:    what the last DEC, INC, SUB or comparison did to Z, a SUB being
\*          counted as setting Z when its stored result is <= 0 and as
\*          clearing it otherwise;
\*   calls: the calls not yet returned from, each with its return address,
\*          the stack depth before it, and whether the stack has stayed
\*          above that depth since;
\*   obs:   what a RET found for the innermost of them;
\*   prev:  the CPU before the iteration, kept when the history traces.
Observe(hh, s, s2) ==
    LET op        == IF s.ip >= maxMemSize THEN NoOp ELSE MemAt(s.mem, s.ip)
        completed == s2.state \in {"running", "exit"}
        res       == MemAt(s.mem, s.ip + 1)
        zf        == IF completed /\ op \in {INC, DEC, CMP_INT, CMP_STR, CMP_REG}
                     THEN (IF s2.z THEN "set" ELSE "cleared")
                     ELSE IF completed /\ op = SUB
                     THEN (IF s2.regs[res].v <= 0 THEN "set" ELSE "cleared")
                     ELSE hh.zf
        returns   == completed /\ op = RET /\ hh.calls # <<>>
        top       == hh.calls[Len(hh.calls)]
        obs       == IF returns
                     THEN [pending |-> TRUE, atEntryDepth |-> Len(s.stack) = top.base + 1,
                           intact |-> top.intact, ret |-> top.ret, base |-> top.base]
                     ELSE NoObs
        calls1    == IF completed /\ op = CALL
                     THEN Append(hh.calls, [ret |-> s.ip + 3, base |-> Len(s.stack),
                                            intact |-> TRUE])
                     ELSE IF returns THEN SubSeq(hh.calls, 1, Len(hh.calls) - 1)
                     ELSE hh.calls
        calls2    == [i \in 1..Len(calls1) |->
                         [calls1[i] EXCEPT !.intact = @ /\ Len(s2.stack) > calls1[i].base]]
    IN  [hh EXCEPT !.last = "Step", !.op = op, !.ip0 = s.ip, !.regs0 = s.regs,
                   !.zf = zf, !.obs = obs, !.calls = calls2, !.steps = @ + 1,
                   !.prev = IF hh.trace THEN s ELSE hh.prev]

-----------------------------------------------------------------------------
(* The environment of one iteration of Run's loop: the number INT_RAND     *)
(* draws, what SYSTEM's command does, the line trap 1 reads, whether the   *)
(* context is done.  NewCPU's context is context.Background(): never done. *)

Env0 == [rnd |-> 0, sys |-> "ok", stdin |-> [eof |-> TRUE, line |-> <<>>], done |-> FALSE]

EnvFor(op) ==
    IF op = INT_RAND THEN {[Env0 EXCEPT !.rnd = n] : n \in {0, 7, maxMemSize - 1}}
    ELSE IF op = SYSTEM THEN {[Env0 EXCEPT !.sys = o] : o \in {"ok", "error", "panic"}}
    ELSE IF op = TRAP THEN {Env0, [Env0 EXCEPT !.stdin = [eof |-> FALSE, line |-> <<55, 10>>]]}
    ELSE {Env0}

\* Run's entry: run := true.
RunBegin(s) == [s EXCEPT !.state = "running", !.err = ""]

-----------------------------------------------------------------------------
(* The run command: lexer.New, compiler.New, Compile (main loop, then the  *)
(* patch loop), NewCPU, LoadBytes, Run.                                    *)

\* Where Compile is after an iteration of its main loop.
Compiling(c) ==
    IF c.status # "ok" THEN "done" ELSE IF c.token.Type = "EOF" THEN "patch" ELSE "compile"

Init ==
    /\ \E p \in Programs :
          /\ comp = CompilerNew(New(Source(p)))
          /\ h = [H0 EXCEPT !.prog = p]
    /\ pc = Compiling(comp)
    /\ cpu = NewCPU
    /\ lx = New(<<>>)
    /\ tok = NoToken

\* One iteration of Compile's main loop.  The history notes the address a
\* label's definition token is processed at, and the image so far.
CompileStep ==
    /\ pc = "compile"
    /\ comp' = compileToken(comp)
    /\ pc' = Compiling(comp')
    /\ h' = IF comp.token.Type = "LABEL"
            THEN LET name == TrimPrefix(comp.token.Literal, ":") IN
                 [h EXCEPT !.last = "compile", !.image = comp'.bytecode,
                           !.defs = [n \in DOMAIN h.defs \cup {name} |->
                                        IF n = name THEN Len(comp.bytecode) ELSE h.defs[n]]]
            ELSE [h EXCEPT !.last = "compile", !.image = comp'.bytecode]
    /\ UNCHANGED <<lx, tok, cpu>>

\* One iteration of Compile's patch loop; the map is ranged over in any
\* order.  The history notes the fixups the warning is printed for, those
\* whose bytes were written, and those written more than once.
PatchOne ==
    /\ pc = "patch"
    /\ \E addr \in DOMAIN comp.fixups \ comp.patched :
          /\ comp' = patchFixup(comp, addr)
          /\ h' = [h EXCEPT !.last = "patch",
                            !.warned = IF warnsUndefined(comp, comp.fixups[addr])
                                       THEN @ \cup {addr} ELSE @,
                            !.rewritten = @ \cup ({addr} \cap h.written),
                            !.written = @ \cup {addr}]
    /\ UNCHANGED <<lx, tok, cpu, pc>>

\* Compile has returned: c := cpu.NewCPU(); c.LoadBytes(comp.Output()); then
\* Run begins.
LoadAndRun ==
    /\ pc = "patch"
    /\ DOMAIN comp.fixups = comp.patched
    /\ cpu' = RunBegin(LoadBytes(NewCPU, comp.bytecode))
    /\ pc' = "run"
    /\ h' = [h EXCEPT !.last = "LoadBytes"]
    /\ UNCHANGED <<lx, tok, comp>>

\* One iteration of Run's loop.
Step ==
    /\ pc = "run"
    /\ cpu.state = "running"
    /\ h.steps < h.limit
    /\ \E e \in EnvFor(MemAt(cpu.mem, cpu.ip)) : cpu' = runStep(cpu, e)
    /\ h' = Observe(h, cpu, cpu')
    /\ pc' = IF cpu'.state = "running" THEN "run" ELSE "done"
    /\ UNCHANGED <<lx, tok, comp>>

Next == CompileStep \/ PatchOne \/ LoadAndRun \/ Step

Spec == Init /\ [][Next]_vars

-----------------------------------------------------------------------------
(* The CPU under test: NewCPU, one LoadBytes, then Run and Reset in any    *)
(* order while Run is not executing.                                       *)

InitCpu ==
    /\ cpu = NewCPU
    /\ pc = "api"
    /\ h = H0
    /\ comp = <<>>
    /\ lx = New(<<>>)
    /\ tok = NoToken

ApiLoadBytes ==
    /\ pc = "api"
    /\ ~h.loaded
    /\ \E data \in Images : cpu' = LoadBytes(cpu, data)
    /\ h' = [h EXCEPT !.last = "LoadBytes", !.loaded = TRUE]
    /\ UNCHANGED <<lx, tok, comp, pc>>

ApiReset ==
    /\ pc \in {"api", "done"}
    /\ cpu.state # "panic"
    /\ h.resets < MaxResets
    /\ cpu' = Reset(cpu)
    /\ h' = [h EXCEPT !.last = "Reset", !.op = NoOp, !.zf = "none", !.calls = <<>>,
                      !.obs = NoObs, !.resets = @ + 1]
    /\ UNCHANGED <<lx, tok, comp, pc>>

ApiRun ==
    /\ pc \in {"api", "done"}
    /\ cpu.state # "panic"
    /\ h.loaded
    /\ h.runs < MaxRuns
    /\ cpu' = RunBegin(cpu)
    /\ pc' = "run"
    /\ h' = [h EXCEPT !.last = "Run", !.op = NoOp, !.runs = @ + 1]
    /\ UNCHANGED <<lx, tok, comp>>

NextCpu == ApiLoadBytes \/ ApiReset \/ ApiRun \/ Step

CpuSpec == InitCpu /\ [][NextCpu]_vars

-----------------------------------------------------------------------------
(* One CPU loaded more than once: NewCPU, then LoadBytes and Run in any    *)
(* order while Run is not executing, the CPU's context being one that can  *)
(* be done at the top of any iteration of Run's loop.                      *)

EdgeLoadBytes ==
    /\ pc \in {"api", "done"}
    /\ cpu.state # "panic"
    /\ h.loads < MaxLoads
    /\ \E data \in EdgeImages :
          /\ cpu' = LoadBytes(cpu, data)
          /\ h' = [h EXCEPT !.last = "LoadBytes", !.loaded = TRUE, !.loads = @ + 1,
                            !.image = data, !.prev = <<>>, !.op = NoOp]
    /\ pc' = "api"
    /\ UNCHANGED <<lx, tok, comp>>

\* One iteration of Run's loop that finds the context done.
StepCancelled ==
    /\ pc = "run"
    /\ cpu.state = "running"
    /\ h.steps < MaxSteps
    /\ cpu' = runStep(cpu, [Env0 EXCEPT !.done = TRUE])
    /\ h' = [Observe(h, cpu, cpu') EXCEPT !.last = "Cancelled", !.prev = cpu]
    /\ pc' = IF cpu'.state = "running" THEN "run" ELSE "done"
    /\ UNCHANGED <<lx, tok, comp>>

NextEdge == EdgeLoadBytes \/ ApiRun \/ Step \/ StepCancelled

EdgeSpec == InitCpu /\ [][NextEdge]_vars

-----------------------------------------------------------------------------
(* One instruction at a time: NewCPU, one LoadBytes of an image that sets  *)
(* up registers, stack and flag and then executes the instruction under    *)
(* study, and Run; the history keeps the CPU before each iteration.        *)

\* "banana"
Banana == <<98, 97, 110, 97, 110, 97>>

\* store #2, 13; call L; exit; L: push #2; ret
PushThenRetImage ==
    <<INT_STORE, 2, 13, 0>> \o <<CALL, 8, 0>> \o <<EXIT>> \o <<PUSH, 2>> \o <<RET>>

StackImages ==
    {<<POP, 3>>, <<RET>>, <<POP, 15>>, PushThenRetImage,
     <<CALL, 4, 0>> \o <<EXIT>> \o <<POP, 3>>,
     <<INT_STORE, 1, 9, 0>> \o <<INT_STORE, 2, 5, 0>> \o <<PUSH, 1>> \o <<PUSH, 2>>
        \o <<POP, 3>> \o <<POP, 4>>,
     <<INT_STORE, 1, 20, 0>> \o <<PUSH, 1>> \o <<RET>>,
     <<INT_STORE, 1, 9, 0>> \o <<PUSH, 1>> \o <<POP, 3>> \o <<POP, 4>>,
     <<INT_STORE, 1, 9, 0>> \o <<PUSH, 1>> \o <<POP, 3>> \o <<RET>>,
     <<CALL, 4, 0>> \o <<EXIT>> \o <<RET>> \o <<RET>>}

\* Trap 0 on a string, on an integer, and on a string of 0x10000 bytes
\* built by doubling a one-byte string sixteen times.
Doublings == 16

TrapImages ==
    {<<INT_STORE, 1, 9, 0>> \o <<PUSH, 1>> \o <<CMP_INT, 2, 0, 0>>
        \o <<STR_STORE, 0, 6, 0>> \o Banana \o <<TRAP, 0, 0>>,
     <<INT_STORE, 0, 5, 0>> \o <<TRAP, 0, 0>>,
     <<STR_STORE, 0, 1, 0, 97>> \o Flatten([i \in 1..Doublings |-> <<CONCAT, 0, 0, 0>>])
        \o <<TRAP, 0, 0>>}

\* Registers 1 and 2 hold Int(7) and Int(3), register 4 holds "7", the
\* stack holds 7, and Z is set or cleared by a comparison.
Setup(z) ==
    <<INT_STORE, 1, 7, 0>> \o <<INT_STORE, 2, 3, 0>> \o <<STR_STORE, 4, 1, 0, 55>>
        \o <<PUSH, 1>> \o <<CMP_INT, 0, (IF z THEN 0 ELSE 1), 0>>

\* One instruction of every opcode, with operands that Setup makes valid,
\* and a comparison of an integer register with a string register.
OneOfEach ==
    {<<EXIT>>, <<NOP>>, <<INT_STORE, 3, 9, 0>>, <<INT_PRINT, 1>>, <<INT_TO_STR, 1>>,
     <<INT_RAND, 5>>, <<JMP, 30, 0>>, <<JMP_Z, 30, 0>>, <<JMP_NZ, 30, 0>>,
     <<ADD, 0, 1, 2>>, <<SUB, 0, 1, 2>>, <<MUL, 0, 1, 2>>, <<DIV, 0, 1, 2>>,
     <<INC, 1>>, <<DEC, 1>>, <<AND, 0, 1, 2>>, <<OR, 0, 1, 2>>, <<XOR, 0, 1, 2>>,
     <<STR_STORE, 5, 2, 0, 55, 56>>, <<STR_PRINT, 4>>, <<CONCAT, 5, 4, 4>>,
     <<SYSTEM, 4>>, <<STR_TO_INT, 4>>, <<CMP_INT, 1, 7, 0>>, <<CMP_INT, 1, 8, 0>>,
     <<CMP_STR, 4, 1, 0, 55>>, <<CMP_STR, 4, 1, 0, 56>>, <<CMP_REG, 1, 2>>,
     <<CMP_REG, 1, 1>>, <<CMP_REG, 1, 4>>, <<CMP_REG, 4, 1>>, <<IS_INT, 1>>, <<IS_INT, 4>>, <<IS_STR, 1>>, <<IS_STR, 4>>,
     <<REG_STORE, 3, 1>>, <<REG_STORE, 3, 4>>, <<PEEK, 3, 2>>, <<POKE, 1, 2>>,
     <<MEM_CPY, 1, 2, 2>>, <<PUSH, 1>>, <<POP, 3>>, <<CALL, 30, 0>>, <<RET>>,
     <<TRAP, 3, 0>>, <<99>>}

EachImages == {Setup(z) \o i : z \in BOOLEAN, i \in OneOfEach}

\* How many register bytes follow the opcode op.
RegCount(op) ==
    CASE op \in {ADD, SUB, MUL, DIV, AND, OR, XOR, CONCAT, MEM_CPY} -> 3
      [] op \in {CMP_REG, REG_STORE, PEEK, POKE} -> 2
      [] op \in {INT_STORE, INT_PRINT, INT_TO_STR, INT_RAND, INC, DEC, STR_STORE,
                  STR_PRINT, SYSTEM, STR_TO_INT, CMP_INT, CMP_STR, IS_INT, IS_STR,
                  PUSH, POP} -> 1
      [] OTHER -> 0

\* The same instructions with one register byte out of range.
BadRegImages ==
    UNION {{Setup(TRUE) \o [i EXCEPT ![k + 1] = b] : k \in 1..RegCount(i[1]), b \in {15, 255}}
           : i \in OneOfEach}

\* store #2, val; store #1, addr; poke #2, #1; the three bytes that the
\* INT_STORE decoded from POKE's second operand byte consumes; peek #3, #1.
PokeImage(val, addr) ==
    <<INT_STORE, 2, val % 256, val \div 256>> \o <<INT_STORE, 1, addr % 256, addr \div 256>>
        \o <<POKE, 2, 1>> \o <<5, 0, 0>> \o <<PEEK, 3, 1>>

PokeValues == {0, 7, 255, 256, 300, 65534, 65535}

PokeAddrs == {0, 40, 65534, 65535}

\* INC poked over the NOP at address 14, which is then executed.
PokedOpcodeImage ==
    <<INT_STORE, 2, INC, 0>> \o <<INT_STORE, 1, 14, 0>> \o <<POKE, 2, 1>> \o <<5, 0, 0>>
        \o <<NOP, 2>>

PokeImages ==
    {PokeImage(val, addr) : val \in PokeValues, addr \in PokeAddrs}
        \cup {PokedOpcodeImage, <<STR_STORE, 4, 1, 0, 55>> \o <<POKE, 4, 1>>,
              <<STR_STORE, 4, 1, 0, 55>> \o <<POKE, 1, 4>>}

\* store #1, dst; store #2, src; store #3, len; memCpy #1, #2, #3
MemCpyImage(dst, src, len) ==
    <<INT_STORE, 1, dst % 256, dst \div 256>> \o <<INT_STORE, 2, src % 256, src \div 256>>
        \o <<INT_STORE, 3, len % 256, len \div 256>> \o <<MEM_CPY, 1, 2, 3>>

\* The longest copy tried.
MaxCopy == 12

CopyAddrs == {0, 1, 2, 40, 65533, 65534, 65535}

CopyLens == {0, 1, 3, MaxCopy}

MemCpyImages ==
    {MemCpyImage(dst, src, len) : dst \in CopyAddrs, src \in CopyAddrs, len \in CopyLens}
        \cup {<<STR_STORE, 3, 1, 0, 55>> \o <<MEM_CPY, 1, 2, 3>>}

\* The largest of the consecutive integers converted to a string and back.
MaxConv == 128

\* The other integers converted: where the number of digits changes, and
\* the ends of the register range.
ConvEdges == {255, 256, 999, 1000, 9999, 10000, 32767, 32768, 65534, 65535}

ConvValues == 0..MaxConv \cup ConvEdges

\* An integer stored, converted to a string and back, the type tested
\* after each conversion.
ConvImage(v) ==
    <<INT_STORE, 1, v % 256, v \div 256>> \o <<INT_TO_STR, 1>> \o <<IS_STR, 1>>
        \o <<IS_INT, 1>> \o <<STR_TO_INT, 1>> \o <<IS_INT, 1>> \o <<IS_STR, 1>>
        \o <<EXIT>>

\* Strings that are no decimal integer: "", "a", "7a", "0x1", " 7", "1.5".
NotDecimal ==
    {<<>>, <<97>>, <<55, 97>>, <<48, 120, 49>>, <<32, 55>>, <<49, 46, 53>>}

\* A string stored and converted to an integer.
ParseImage(s) ==
    <<STR_STORE, 1, Len(s), 0>> \o s \o <<STR_TO_INT, 1>> \o <<EXIT>>

ConvImages ==
    {ConvImage(v) : v \in ConvValues} \cup {ParseImage(s) : s \in NotDecimal}

\* A string comparison copied to the last five bytes of memory, and an
\* EXIT to address 0, and jumped to; a JMP, a CALL and a RET to the address
\* after the last byte of memory.
EndImages ==
    {<<JMP, 9, 0>> \o <<CMP_STR, 4, 2, 0, 55, EXIT>> \o <<INT_STORE, 1, 250, 255>>
        \o <<INT_STORE, 2, 3, 0>> \o <<INT_STORE, 3, 6, 0>> \o <<MEM_CPY, 1, 2, 3>>
        \o <<JMP, 250, 255>>,
     <<JMP, 255, 255>>,
     <<CALL, 255, 255>>,
     <<INT_STORE, 1, 255, 255>> \o <<PUSH, 1>> \o <<RET>>}

InstrImages ==
    StackImages \cup TrapImages \cup EachImages \cup BadRegImages \cup PokeImages
        \cup MemCpyImages \cup ConvImages \cup EndImages

InitInstr ==
    /\ cpu = NewCPU
    /\ pc = "api"
    /\ h = [H0 EXCEPT !.trace = TRUE]
    /\ comp = <<>>
    /\ lx = New(<<>>)
    /\ tok = NoToken

InstrLoadBytes ==
    /\ pc = "api"
    /\ ~h.loaded
    /\ \E data \in InstrImages :
          /\ cpu' = LoadBytes(cpu, data)
          /\ h' = [h EXCEPT !.last = "LoadBytes", !.loaded = TRUE, !.image = data]
    /\ UNCHANGED <<lx, tok, comp, pc>>

NextInstr == InstrLoadBytes \/ ApiRun \/ Step

InstrSpec == InitInstr /\ [][NextInstr]_vars

-----------------------------------------------------------------------------
(* A counting loop run all the way round: NewCPU, LoadBytes of             *)
(*     store #1, v;  L: inc #1 (or dec #1);  jmp L                         *)
(* and Run, followed for Cycle passes through the loop.                    *)

\* The number of values an Int register can hold.
Cycle == maxMemSize + 1

CounterStarts == {0, maxMemSize}

CounterImage(op, v) == <<INT_STORE, 1, v % 256, v \div 256>> \o <<op, 1>> \o <<JMP, 4, 0>>

InitCounter ==
    /\ cpu = NewCPU
    /\ pc = "api"
    /\ h = [H0 EXCEPT !.trace = TRUE, !.limit = 2 * Cycle]
    /\ comp = <<>>
    /\ lx = New(<<>>)
    /\ tok = NoToken

CounterLoadBytes ==
    /\ pc = "api"
    /\ ~h.loaded
    /\ \E op \in {INC, DEC} : \E v \in CounterStarts :
          /\ cpu' = LoadBytes(cpu, CounterImage(op, v))
          /\ h' = [h EXCEPT !.last = "LoadBytes", !.loaded = TRUE, !.args = <<op, v>>]
    /\ UNCHANGED <<lx, tok, comp, pc>>

NextCounter == CounterLoadBytes \/ ApiRun \/ Step

CounterSpec == InitCounter /\ [][NextCounter]_vars

-----------------------------------------------------------------------------
(* StrLenTrap on its own: a CPU whose register 0 holds an integer or a     *)
(* string of a chosen length, as a program of STR_STORE and CONCAT leaves  *)
(* it (TrapImages builds 0x10000 bytes), and one call of the trap.  The    *)
(* history keeps the kind and the length, not the string.                  *)

\* Every string length up to MaxStrLen is tried, and those around 0xFFFF.
MaxStrLen == 100

StrLens == 0..MaxStrLen \cup {65534, 65535, 65536}

\* The CPU the trap is called on: register 1, the stack and the flag set.
StrLenArg(kind, n) ==
    [RunBegin(NewCPU) EXCEPT
        !.regs[0] = IF kind = "str" THEN SetStr([i \in 1..n |-> 97]) ELSE SetInt(n),
        !.regs[1] = SetInt(9), !.stack = <<9>>, !.z = TRUE]

InitStrLen ==
    /\ \E kind \in {"str", "int"} : \E n \in StrLens : h = [H0 EXCEPT !.args = <<kind, n>>]
    /\ pc = "api"
    /\ cpu = NewCPU
    /\ comp = <<>>
    /\ lx = New(<<>>)
    /\ tok = NoToken

\* err := fn(c, num) for trap 0, and Run's return of the error.
CallStrLenTrap ==
    /\ pc = "api"
    /\ cpu' = Done(StrLenTrap(Work(StrLenArg(h.args[1], h.args[2]))))
    /\ pc' = "done"
    /\ h' = [h EXCEPT !.last = "StrLenTrap"]
    /\ UNCHANGED <<lx, tok, comp>>

StrLenSpec == InitStrLen /\ [][CallStrLenTrap]_vars

-----------------------------------------------------------------------------
(* The execute command: for each file argument NewCPU, ReadFile, Run.      *)

File(data) == [readable |-> TRUE, size |-> Len(data), data |-> data]

Unreadable == [readable |-> FALSE, size |-> 0, data |-> <<>>]

\* A file of 0xFFFF bytes.
TooLarge == [readable |-> TRUE, size |-> maxMemSize, data |-> <<NOP>>]

Files ==
    {Unreadable, TooLarge, File(<<>>), File(<<NOP>>), File(<<INC, 1>>),
     File(<<INT_STORE, 1, 255, 255>> \o <<INT_PRINT, 1>>), File(<<255>>),
     File(<<JMP, 255, 255>>)}

InitExec ==
    /\ \E args \in SeqsUpTo(Files, MaxFiles) : h = [H0 EXCEPT !.args = args]
    /\ pc = "exec"
    /\ cpu = NewCPU
    /\ comp = <<>>
    /\ lx = New(<<>>)
    /\ tok = NoToken

\* The loop body up to Run's entry: c := cpu.NewCPU(); c.ReadFile(file),
\* whose error is printed; c.Run() begins.
ExecFile ==
    /\ pc = "exec"
    /\ h.args # <<>>
    /\ cpu' = RunBegin(ReadFile(NewCPU, Head(h.args)).cpu)
    /\ h' = [h EXCEPT !.last = "ReadFile", !.op = NoOp, !.args = Tail(h.args),
                      !.readErr = h.readErr \/ ReadFile(NewCPU, Head(h.args)).err # ""]
    /\ pc' = "run"
    /\ UNCHANGED <<lx, tok, comp>>

\* Run has returned: an error is printed and Execute returns ExitFailure;
\* otherwise the loop goes on.  A panic ends the process.
ExecRunReturned ==
    /\ pc = "done"
    /\ h.status = "none"
    /\ pc' = IF cpu.state = "exit" THEN "exec" ELSE "returned"
    /\ h' = [h EXCEPT !.last = "Run returned",
                      !.status = IF cpu.state = "error" THEN "ExitFailure"
                                 ELSE IF cpu.state = "panic" THEN "panic"
                                 ELSE "none"]
    /\ UNCHANGED <<lx, tok, comp, cpu>>

\* The loop is over: return subcommands.ExitSuccess.
ExecReturn ==
    /\ pc = "exec"
    /\ h.args = <<>>
    /\ pc' = "returned"
    /\ h' = [h EXCEPT !.last = "return", !.status = "ExitSuccess"]
    /\ UNCHANGED <<lx, tok, comp, cpu>>

NextExec == ExecFile \/ Step \/ ExecRunReturned \/ ExecReturn

ExecSpec == InitExec /\ [][NextExec]_vars

-----------------------------------------------------------------------------
(* The lexer under test: New(input), then NextToken() again and again.     *)

InitLex ==
    /\ \E input \in LexInputs : lx = New(input)
    /\ tok = NoToken
    /\ comp = <<>>
    /\ cpu = <<>>
    /\ pc = "lex"
    /\ h = H0

\* One call of lx.NextToken().  A call that does not return leaves the
\* caller in "hung".  The history keeps the lexer the call was made on.
CallNextToken ==
    /\ pc = "lex"
    /\ lx.pos < Len(lx.characters) + MaxPastEnd
    /\ \E r \in {NextToken(lx)} :
          /\ lx' = r.l
          /\ tok' = r.tok
          /\ pc' = IF r.hung THEN "hung" ELSE "lex"
          /\ h' = [h EXCEPT !.sawEOF = h.sawEOF \/ (~r.hung /\ r.tok.Type = "EOF"),
                            !.last = "NextToken", !.prev = lx]
    /\ UNCHANGED <<comp, cpu>>

LexSpec == InitLex /\ [][CallNextToken]_vars

-----------------------------------------------------------------------------
(* Claims                                                                  *)

\* The i-th byte after the opcode of the instruction the last step executed.
Arg(i) == MemAt(cpu.mem, h.ip0 + i)

\* The address operand of the jump the last step executed.
JumpTarget == Arg(1) + Arg(2) * 256

\* The last action was an iteration of Run's loop that executed op and left
\* the CPU running.
Executed(op) == h.last = "Step" /\ h.op = op /\ cpu.state = "running"

\* The range a register integer is held in.
Clamp(v) == IF v < 0 THEN 0 ELSE IF v > 65535 THEN 65535 ELSE v

\* C1: after Reset() all 15 registers hold Int(0), IP is 0, the stack is
\* empty and the Z flag is cleared.
C1_ResetClearsRegistersIpStackAndZ ==
    h.last = "Reset" =>
        /\ \A r \in 0..(NumRegs - 1) : cpu.regs[r] = IntObject(0)
        /\ cpu.ip = 0
        /\ cpu.stack = <<>>
        /\ ~cpu.z

\* C2: JMP_Z jumps exactly when the most recent of DEC, INC, SUB and the
\* comparisons set Z, JMP_NZ exactly when it cleared Z, a SUB setting Z when
\* its stored result is <= 0 and clearing it otherwise.
C2_ConditionalJumpFollowsLastFlagInstruction ==
    (h.last = "Step" /\ cpu.state = "running" /\ h.zf # "none"
        /\ JumpTarget # h.ip0 + 3) =>
        /\ (h.op = JMP_Z => ((cpu.ip = JumpTarget) <=> (h.zf = "set")))
        /\ (h.op = JMP_NZ => ((cpu.ip = JumpTarget) <=> (h.zf = "cleared")))

\* C3: the poke program runs NOP at 0x5000 and EXIT at 0x5001 and ends
\* normally, having printed nothing.
C3_PokeProgramExitsSilently ==
    (h.prog.kind = "poke" /\ pc = "done") =>
        /\ cpu.state = "exit"
        /\ cpu.ip = 20481
        /\ cpu.out = <<>>

\* C4: store #r, v; push #r; store #r, X; pop #r ends with v in register r
\* and the stack as before the push, X being an integer, a string, a
\* register or a label.
C4_PushStorePopRestoresRegister ==
    (h.prog.kind = "pushpop" /\ pc = "done") =>
        /\ cpu.state = "exit"
        /\ cpu.regs[h.prog.r] = IntObject(h.prog.v)
        /\ cpu.stack = <<>>

\* C5, as stated: a RET executed with the stack at the depth it had on
\* entry to the routine resumes at the address of the CALL plus 3 and
\* leaves the stack as it was before the CALL.
C5_RetAtEntryDepthResumesAfterCall ==
    (h.last = "Step" /\ h.op = RET /\ h.obs.pending /\ h.obs.atEntryDepth) =>
        /\ cpu.ip = h.obs.ret
        /\ Len(cpu.stack) = h.obs.base

\* C5, amended: a RET executed with the stack at the depth it had on entry
\* to the routine, the stack never having dropped below that depth since
\* the CALL, resumes at the address of the CALL plus 3 and leaves the stack
\* as deep as it was before the CALL.
C5_RetWithIntactFrameResumesAfterCall ==
    (h.last = "Step" /\ h.op = RET /\ h.obs.pending /\ h.obs.atEntryDepth
        /\ h.obs.intact) =>
        /\ cpu.ip = h.obs.ret
        /\ Len(cpu.stack) = h.obs.base

\* A nested routine has returned to its caller, inside the outer routine.
C5_NestedRetReturned ==
    /\ h.last = "Step" /\ h.op = RET
    /\ h.obs.pending /\ h.obs.atEntryDepth /\ h.obs.intact
    /\ h.obs.base = 1
    /\ cpu.ip = h.obs.ret
    /\ Len(cpu.stack) = 1

\* The compiler has read the whole source and patched every fixup.
Compiled ==
    /\ comp.status = "ok"
    /\ pc \in {"patch", "run", "done"}
    /\ DOMAIN comp.fixups = comp.patched

\* The statements of LabelStmts that use a label.
LabelUses(body) == {i \in DOMAIN body : body[i] \in 3..8}

C7_StorePrintShowsClampedLiteral ==
    (h.prog.kind = "print" /\ pc = "done") =>
        /\ cpu.state = "exit"
        /\ cpu.out = Bytes(formatHex(Clamp(h.prog.v)))

TenLines ==
    <<48, 97, 10, 48, 57, 10, 48, 56, 10, 48, 55, 10, 48, 54, 10,
      48, 53, 10, 48, 52, 10, 48, 51, 10, 48, 50, 10, 48, 49, 10>>

ElevenLines == TenLines \o <<48, 48, 10>>

IsPrefix(s, t) == Len(s) <= Len(t) /\ s = SubSeq(t, 1, Len(s))

C10_NextTokenReturnsAndEofIsFinal ==
    /\ pc # "hung"
    /\ (h.sawEOF => tok.Type = "EOF")

\* The 16-bit operand after the register byte of the instruction the last
\* step executed.
Declared == Arg(2) + Arg(3) * 256

\* C11: reading the string operand of STR_STORE or CMP_STR never faults for
\* a declared length below 0xFFFF, wherever the operand lies, and the
\* string read has exactly the declared length.
C11_StringOperandReadNeverFaults ==
    (h.last = "Step" /\ h.op \in {STR_STORE, CMP_STR} /\ h.ip0 + 3 < maxMemSize
        /\ Arg(1) < NumRegs /\ Declared < maxMemSize) =>
        /\ cpu.state = "running"
        /\ h.op = STR_STORE => Len(cpu.regs[Arg(1)].v) = Declared

\* The opcodes that read memory only at the IP: the opcode itself, register
\* bytes and 16-bit immediates.
FetchOnly ==
    {EXIT, INT_STORE, INT_PRINT, INT_TO_STR, INT_RAND, JMP, JMP_Z, JMP_NZ, ADD, SUB,
     MUL, DIV, INC, DEC, AND, OR, XOR, STR_PRINT, CONCAT, STR_TO_INT, CMP_INT,
     CMP_REG, IS_INT, IS_STR, NOP, REG_STORE, PUSH, POP, CALL, RET, TRAP}

\* C12: an iteration of Run's loop that fetches an opcode, register bytes
\* and immediates never indexes memory at 0xFFFF or beyond: Run ends by
\* EXIT or by returning an error, wherever the instruction lies.
C12_FetchNeverReadsBeyondMemory ==
    (h.last = "Step" /\ h.op \in FetchOnly) => cpu.state \in {"running", "exit", "error"}

\* C13: LoadBytes(data) on a CPU that has run another program leaves data
\* at offsets 0..len(data)-1 and 0 everywhere else, and registers, stack, IP
\* and Z at their initial values.
C13_LoadResetsMachine ==
    (h.last = "LoadBytes" /\ h.runs >= 1 /\ Len(h.image) < maxMemSize) =>
        /\ \A a \in 0..(Len(h.image) - 1) : MemAt(cpu.mem, a) = h.image[a + 1]
        /\ \A a \in DOMAIN cpu.mem : a < Len(h.image)
        /\ \A r \in 0..(NumRegs - 1) : cpu.regs[r] = IntObject(0)
        /\ cpu.stack = <<>>
        /\ cpu.ip = 0
        /\ ~cpu.z

\* C14: CMP_REG r1, r2 with both indices valid never fails: execution goes
\* on with the next instruction, Z being set exactly when the registers held
\* the same variant and equal values.
C14_CmpRegNeverFails ==
    (h.last = "Step" /\ h.op = CMP_REG /\ h.ip0 + 2 < maxMemSize
        /\ Arg(1) < NumRegs /\ Arg(2) < NumRegs) =>
        /\ cpu.state = "running"
        /\ cpu.ip = h.ip0 + 3
        /\ cpu.z <=> (/\ Type(h.regs0[Arg(1)]) = Type(h.regs0[Arg(2)])
                      /\ h.regs0[Arg(1)].v = h.regs0[Arg(2)].v)

\* The CPU as the cancelled iteration found it, with Run having returned a
\* timeout error.
TimedOut == [h.prev EXCEPT !.state = "error", !.err = "timeout during execution"]

C16_ExecuteFailsWhenLoadFails ==
    (pc = "returned" /\ h.readErr) => h.status # "ExitSuccess"

\* Compile has returned.
CompileReturned == comp.status = "ok" /\ pc \in {"patch", "run", "done"}

\* C17: when the tokens after a mnemonic do not match its operand grammar
\* the compiler terminates: Compile() does not return with an image.
C17_MalformedOperandStopsCompiler ==
    h.prog.kind = "malformed" => ~CompileReturned

\* C18: the patch loop prints the undefined-label warning for a fixup
\* exactly when its name has no definition, and then patches 0, 0.
C18_WarningExactlyForUndefinedLabels ==
    Compiled =>
        \A addr \in DOMAIN comp.fixups :
            /\ addr \in h.warned <=> comp.fixups[addr] \notin DOMAIN h.defs
            /\ comp.fixups[addr] \notin DOMAIN h.defs =>
                  comp.bytecode[addr + 1] = 0 /\ comp.bytecode[addr + 2] = 0

\* The trap number of the TRAP the last step executed.
TrapNum == Arg(1) + Arg(2) * 256

\* The last step executed a TRAP whose operand lies inside memory.
TrapExecuted == h.last = "Step" /\ h.op = TRAP /\ h.ip0 + 2 < maxMemSize

\* C19: TRAP num runs table entry num for num in 0..0xFFFE and returns its
\* error: an undefined-trap error for every num but 0, 1 and 2 (whose
\* errors are a type mismatch or a read error), an invalid-trap-number error
\* for 0xFFFF; after a trap that succeeds the IP is behind the trap number.
C19_TrapDispatch ==
    TrapExecuted =>
        /\ TrapNum = 65535 =>
              cpu.state = "error" /\ cpu.err = "invalid trap number" /\ cpu.regs = h.regs0
        /\ TrapNum \in 3..65534 =>
              cpu.state = "error" /\ cpu.err = "trap function not defined"
        /\ TrapNum \in {0, 2} =>
              IF Type(h.regs0[0]) = "str" THEN cpu.state = "running"
              ELSE cpu.state = "error" /\ cpu.err = "type mismatch"
        /\ (TrapNum = 0 /\ cpu.state = "running") =>
              cpu.regs[0] = IntObject(Len(h.regs0[0].v))
        /\ TrapNum = 1 => cpu.state = "running" \/ cpu.err = "read error"
        /\ cpu.state = "running" => cpu.ip = h.ip0 + 3
        /\ cpu.state \in {"running", "error"}

\* Trap 0 has stored the length of a two-byte string and execution goes on
\* behind the trap number.
C19_StrLenTrapReturned ==
    /\ TrapExecuted
    /\ TrapNum = 0
    /\ cpu.state = "running"
    /\ cpu.regs[0] = IntObject(2)
    /\ cpu.ip = h.ip0 + 3

\* The CPU has been loaded once and no byte behind the image is non-zero.
FreshBehindImage ==
    /\ h.loads = 1
    /\ Len(h.image) < maxMemSize
    /\ \A a \in DOMAIN cpu.mem : a < Len(h.image)

\* C20: after an image of n < 0xFFFF bytes is loaded into a new CPU every
\* byte from address n on is 0, the last byte of memory included; an
\* iteration of Run's loop that begins at an address >= n, memory being
\* unmodified there, executes EXIT and Run returns nil.
C20_UnterminatedProgramExits ==
    /\ (h.last = "LoadBytes" /\ h.loads = 1 /\ Len(h.image) < maxMemSize) =>
          /\ FreshBehindImage
          /\ MemAt(cpu.mem, maxMemSize - 1) = 0
          /\ \A a \in 0..(Len(h.image) - 1) : MemAt(cpu.mem, a) = h.image[a + 1]
    /\ (h.last = "Step" /\ FreshBehindImage
          /\ h.ip0 >= Len(h.image) /\ h.ip0 < maxMemSize) =>
          /\ cpu.state = "exit"
          /\ cpu.ip = h.ip0

\* A program without EXIT has run off its end and Run has returned nil.
C20_RanOffTheEnd ==
    /\ h.last = "Step"
    /\ FreshBehindImage
    /\ Len(h.image) > 0
    /\ h.steps > 1
    /\ h.ip0 = Len(h.image)
    /\ cpu.state = "exit"

-----------------------------------------------------------------------------
(* Claims about single instructions, checked under InstrSpec, where        *)
(* h.prev is the CPU before the last iteration of Run's loop.              *)

\* The last iteration decoded op.
Decoded(op) == h.last = "Step" /\ h.trace /\ h.op = op

\* Registers rs and qs hold the same objects except perhaps at the indices
\* in but.
SameRegs(rs, qs, but) ==
    \A i \in DOMAIN rs \ but : Type(rs[i]) = Type(qs[i]) /\ rs[i].v = qs[i].v

\* Run returned the error kind from the last iteration, which left the
\* registers, the stack, the memory and the flag as they were.
FailedWith(kind) ==
    /\ cpu.state = "error"
    /\ cpu.err = kind
    /\ pc = "done"
    /\ SameRegs(cpu.regs, h.prev.regs, {})
    /\ cpu.stack = h.prev.stack
    /\ cpu.mem = h.prev.mem
    /\ cpu.z = h.prev.z

\* POP or RET was decoded with the stack empty.
PoppedEmpty == (Decoded(POP) \/ Decoded(RET)) /\ h.prev.stack = <<>>

\* C21 as stated: POP or RET executed with an empty stack makes Run return
\* the stack-underflow error, the stack staying empty, no register being
\* written, IP not being set from a popped value and no further
\* instruction being executed.
C21_EmptyStackPopOrRetUnderflows ==
    PoppedEmpty =>
        /\ FailedWith("stackunderflow")
        /\ cpu.stack = <<>>
        /\ cpu.ip = h.ip0 + (IF h.op = POP THEN 2 ELSE 0)

\* C21 amended: RET, or POP whose register byte is in range, executed with
\* an empty stack makes Run return the stack-underflow error, the stack
\* staying empty, no register being written, IP staying where the operand
\* fetch left it and no further instruction being executed; POP whose
\* register byte is 15 or more returns the register-out-of-range error
\* first, with the same frame.
C21_EmptyStackPopInRangeOrRetUnderflows ==
    PoppedEmpty /\ h.ip0 + 1 < maxMemSize =>
        IF h.op = POP /\ Arg(1) >= NumRegs
        THEN FailedWith("register out of range") /\ cpu.ip = h.ip0 + 1
        ELSE /\ FailedWith("stackunderflow")
             /\ cpu.stack = <<>>
             /\ cpu.ip = h.ip0 + (IF h.op = POP THEN 2 ELSE 0)

\* A POP into register 3 has found the stack empty.
C21_PopUnderflowed == PoppedEmpty /\ h.op = POP /\ Arg(1) = 3 /\ cpu.err = "stackunderflow"

\* The last iteration completed and left registers other than those in
\* but, the memory, the stack and the flag as they were.
CompletedKeeping(but) ==
    /\ cpu.state = "running"
    /\ SameRegs(cpu.regs, h.prev.regs, but)
    /\ cpu.stack = h.prev.stack
    /\ cpu.mem = h.prev.mem
    /\ cpu.z = h.prev.z

\* StrLenTrap was called on a CPU whose register 0 held a string, or an
\* integer.
StrLenCalledOn(kind) == h.last = "StrLenTrap" /\ h.args[1] = kind

\* What StrLenTrap left apart from register 0 is what it was called on.
StrLenKeptOthers ==
    /\ \A i \in 1..(NumRegs - 1) : cpu.regs[i] = IF i = 1 THEN SetInt(9) ELSE NewRegister
    /\ cpu.stack = <<9>>
    /\ cpu.mem = NewCPU.mem
    /\ cpu.z

\* With an integer in register 0 the trap returned the type error and left
\* the integer there.
StrLenRejectedInt ==
    /\ cpu.state = "error"
    /\ cpu.err = "type mismatch"
    /\ cpu.regs[0] = SetInt(h.args[2])
    /\ StrLenKeptOthers

\* C22 as stated: trap 0 with register 0 holding a Str of length n sets
\* register 0 to Int(n) and changes no other register, memory, stack or
\* flag; with register 0 holding an Int it returns a type-mismatch error and
\* leaves register 0 unchanged.
C22_StrLenStoresLength ==
    /\ StrLenCalledOn("str") =>
          cpu.state = "running" /\ cpu.regs[0] = IntObject(h.args[2]) /\ StrLenKeptOthers
    /\ StrLenCalledOn("int") => StrLenRejectedInt

\* C22 amended: the length is stored through SetInt, so a Str of 0xFFFF
\* bytes or more gives Int(0xFFFF).
C22_StrLenStoresClampedLength ==
    /\ StrLenCalledOn("str") =>
          /\ cpu.state = "running"
          /\ cpu.regs[0] = IntObject(Min(h.args[2], 65535))
          /\ StrLenKeptOthers
    /\ StrLenCalledOn("int") => StrLenRejectedInt

\* Trap 0 has turned a string of six bytes into Int(6).
C22_SixBytesMeasured ==
    StrLenCalledOn("str") /\ h.args[2] = 6 /\ cpu.regs[0] = IntObject(6)

\* The TRAP instruction with number 0 does the same inside Run: "banana"
\* becomes Int(6), and the string of 0x10000 bytes Int(0xFFFF).
StrLenInvoked == Decoded(TRAP) /\ h.ip0 + 2 < maxMemSize /\ TrapNum = 0

StrLenInstruction ==
    StrLenInvoked =>
        IF Type(h.prev.regs[0]) = "str"
        THEN /\ CompletedKeeping({0})
             /\ cpu.regs[0] = IntObject(Min(Len(h.prev.regs[0].v), 65535))
        ELSE FailedWith("type mismatch")

\* The byte at address a before the last iteration.
Was(a) == MemAt(h.prev.mem, a)

\* The encoded length of the instruction at the IP the last iteration
\* began with, by the emitters' table.
EncodedLength ==
    CASE h.op \in {EXIT, NOP, RET} -> 1
      [] h.op \in {INT_PRINT, INT_TO_STR, INT_RAND, INC, DEC, STR_PRINT, SYSTEM,
                   STR_TO_INT, IS_INT, IS_STR, PUSH, POP} -> 2
      [] h.op \in {JMP, JMP_Z, JMP_NZ, CALL, TRAP, PEEK, POKE, REG_STORE, CMP_REG} -> 3
      [] h.op \in {ADD, SUB, MUL, DIV, AND, OR, XOR, CONCAT, MEM_CPY,
                   INT_STORE, CMP_INT} -> 4
      [] h.op \in {STR_STORE, CMP_STR} -> 4 + Was(h.ip0 + 2) + Was(h.ip0 + 3) * 256
      [] OTHER -> 0

\* The last iteration completed an instruction that falls through to the
\* next one: not EXIT, CALL or RET, and not a jump that was taken.
FellThrough ==
    /\ h.last = "Step" /\ h.trace
    /\ cpu.state = "running"
    /\ h.op \notin {EXIT, JMP, CALL, RET}
    /\ h.op = JMP_Z => ~h.prev.z
    /\ h.op = JMP_NZ => h.prev.z

\* C23: every instruction that completes without error and is not EXIT, a
\* taken jump, CALL or RET leaves IP at the address of its opcode plus its
\* encoded length.
C23_IpAdvancesByEncodedLength ==
    FellThrough /\ h.ip0 + EncodedLength <= maxMemSize => cpu.ip = h.ip0 + EncodedLength

\* The last action was an iteration of Run's loop, completed or not.
Iterated == h.last = "Step" /\ h.trace

\* C24 as stated: Z is changed only by DEC, INC, SUB, CMP_INT, CMP_STR and
\* CMP_REG; every other instruction, IS_INT and IS_STR included, leaves Z
\* as it was.
C24_OnlyArithmeticAndComparisonsWriteZ ==
    Iterated /\ h.op \notin {DEC, INC, SUB, CMP_INT, CMP_STR, CMP_REG} => cpu.z = h.prev.z

\* C24 amended: Z is changed only by DEC, INC, SUB, CMP_INT, CMP_STR,
\* CMP_REG, IS_INT and IS_STR; every other instruction leaves Z as it was,
\* whether it completes or fails.
C24_OnlyFlagInstructionsWriteZ ==
    Iterated /\ h.op \notin {DEC, INC, SUB, CMP_INT, CMP_STR, CMP_REG, IS_INT, IS_STR}
        => cpu.z = h.prev.z

\* An ADD has completed with Z set before and after it.
C24_AddKeptZSet == Decoded(ADD) /\ cpu.state = "running" /\ h.prev.z /\ cpu.z

\* The value INC, or DEC, stores for v.
Counted(op, v) ==
    IF op = INC THEN (IF v = 65535 THEN 0 ELSE v + 1) ELSE (IF v = 0 THEN 65535 ELSE v - 1)

\* INC or DEC was decoded with an Int in its register.
CountedInt ==
    /\ Decoded(INC) \/ Decoded(DEC)
    /\ h.ip0 + 1 < maxMemSize
    /\ Was(h.ip0 + 1) < NumRegs
    /\ Type(h.prev.regs[Was(h.ip0 + 1)]) = "int"

\* C25: INC r on Int(v) stores 0 when v = 0xFFFF and v + 1 otherwise, DEC r
\* on Int(v) stores 0xFFFF when v = 0 and v - 1 otherwise, and Z is set iff
\* the stored value is 0; so after Cycle = 0x10000 applications (0xFFFF and
\* one more) the register holds the value it started with.
C25_IncDecWrapAndCycle ==
    /\ CountedInt =>
          /\ cpu.state = "running"
          /\ cpu.regs[Was(h.ip0 + 1)]
                = IntObject(Counted(h.op, h.prev.regs[Was(h.ip0 + 1)].v))
          /\ cpu.z = (cpu.regs[Was(h.ip0 + 1)].v = 0)
    /\ CountedInt /\ h.limit = 2 * Cycle /\ h.steps = 2 * Cycle =>
          cpu.regs[1] = IntObject(h.args[2])

\* INC has taken 0xFFFF to 0 and set Z.
C25_IncWrapped ==
    /\ CountedInt /\ h.op = INC
    /\ h.prev.regs[Was(h.ip0 + 1)].v = 65535
    /\ cpu.regs[Was(h.ip0 + 1)].v = 0
    /\ cpu.z

\* The register bytes of the instruction the last iteration decoded, all
\* of them inside memory.
RegBytes == 1..RegCount(h.op)

HasRegBytes == Iterated /\ RegCount(h.op) > 0 /\ h.ip0 + RegCount(h.op) < maxMemSize

\* The first register byte that is out of range, 0 when there is none.
FirstBad ==
    IF \A k \in RegBytes : Was(h.ip0 + k) < NumRegs THEN 0
    ELSE CHOOSE k \in RegBytes :
            /\ Was(h.ip0 + k) >= NumRegs
            /\ \A j \in 1..(k - 1) : Was(h.ip0 + j) < NumRegs

\* C26: every byte that names a register is range-checked before the
\* register array is accessed: bytes in 0..14 are accepted, and a byte of
\* 15 or more makes Run return the register-out-of-range error with no
\* register, memory, stack or flag modified by that instruction.
C26_RegisterBytesAreRangeChecked ==
    HasRegBytes =>
        IF FirstBad = 0 THEN cpu.err # "register out of range"
        ELSE FailedWith("register out of range") /\ cpu.ip = h.ip0 + FirstBad

\* An ADD whose third register byte is 15 has been rejected.
C26_ThirdRegisterRejected ==
    /\ HasRegBytes /\ h.op = ADD
    /\ FirstBad = 3 /\ Was(h.ip0 + 3) = 15
    /\ cpu.err = "register out of range"

\* C27: every register operand byte the compiler emits for a source that
\* compiles without a fatal error is accepted by the interpreter's range
\* check: when "inc #r; exit" compiles, the byte emitted for #r is below 15
\* and the run does not end with the register-out-of-range error.
C27_CompiledRegistersAreAccepted ==
    Compiled /\ h.prog.kind = "register" =>
        /\ comp.bytecode[2] < NumRegs
        /\ cpu.err # "register out of range"

\* POKE was decoded with both register bytes in range and both registers
\* holding integers.
PokedInts ==
    /\ Decoded(POKE)
    /\ h.ip0 + 2 < maxMemSize
    /\ Was(h.ip0 + 1) < NumRegs /\ Was(h.ip0 + 2) < NumRegs
    /\ Type(h.prev.regs[Was(h.ip0 + 1)]) = "int"
    /\ Type(h.prev.regs[Was(h.ip0 + 2)]) = "int"

PokeVal == h.prev.regs[Was(h.ip0 + 1)].v

PokeAddr == h.prev.regs[Was(h.ip0 + 2)].v

\* C28: POKE valReg, addrReg with both registers Int, val < 0xFFFF and
\* addr < 0xFFFF writes val mod 256 into mem[addr] and changes no other
\* memory byte, no register, no flag and no stack entry; with val = 0xFFFF or
\* addr = 0xFFFF Run returns an error and memory is unchanged; a PEEK at
\* addr and an opcode fetch at addr that follow see the byte written.
C28_PokeWritesOneByte ==
    /\ PokedInts =>
          IF PokeVal < 65535 /\ PokeAddr < 65535
          THEN /\ cpu.state = "running"
               /\ \A a \in 0..(maxMemSize - 1) :
                     MemAt(cpu.mem, a) = IF a = PokeAddr THEN PokeVal % 256 ELSE Was(a)
               /\ SameRegs(cpu.regs, h.prev.regs, {})
               /\ cpu.z = h.prev.z
               /\ cpu.stack = h.prev.stack
          ELSE FailedWith(IF PokeVal = 65535 THEN "value out of range"
                          ELSE "address out of range")
    /\ \A val \in PokeValues \ {65535} : \A addr \in PokeAddrs \ {65535} :
          h.image = PokeImage(val, addr) /\ Decoded(PEEK) /\ cpu.state = "running"
              => cpu.regs[3] = IntObject(val % 256)
    /\ h.image = PokedOpcodeImage /\ h.ip0 = 14 /\ Iterated
          => h.op = INC /\ cpu.regs[2] = IntObject(INC + 1)

\* POKE has written 300 mod 256 to address 40.
C28_PokedLowByte ==
    PokedInts /\ PokeVal = 300 /\ PokeAddr = 40 /\ MemAt(cpu.mem, 40) = 44 /\ Was(40) = 0

\* mem[d] := mem[s]
CopyByte(mem, d, s) == MemSet(mem, d, MemAt(mem, s))

\* The memory after the first i bytes of a forward copy from src to dst,
\* both cursors taken modulo 0xFFFF.
RECURSIVE Copied(_, _, _, _)
Copied(mem, dst, src, i) ==
    IF i = 0 THEN mem
    ELSE CopyByte(Copied(mem, dst, src, i - 1), (dst + i - 1) % 65535, (src + i - 1) % 65535)

\* MEM_CPY was decoded with its register bytes in range and the three
\* registers holding integers.
CopiedInts ==
    /\ Decoded(MEM_CPY)
    /\ h.ip0 + 3 < maxMemSize
    /\ \A k \in 1..3 : /\ Was(h.ip0 + k) < NumRegs
                       /\ Type(h.prev.regs[Was(h.ip0 + k)]) = "int"

CopyArg(k) == h.prev.regs[Was(h.ip0 + k)].v

\* C29: MEM_CPY dstReg, srcReg, lenReg with all three Int never faults and
\* copies forward byte by byte, mem[(dst+i) mod 0xFFFF] := mem[(src+i) mod
\* 0xFFFF] for i = 0..len-1 in increasing order; with len = 0 memory is
\* unchanged; registers, flag and stack are never changed.
C29_MemCpyCopiesForwardWithWrap ==
    CopiedInts =>
        /\ cpu.state = "running"
        /\ cpu.mem = Copied(h.prev.mem, CopyArg(1), CopyArg(2), CopyArg(3))
        /\ CopyArg(3) = 0 => cpu.mem = h.prev.mem
        /\ SameRegs(cpu.regs, h.prev.regs, {})
        /\ cpu.z = h.prev.z
        /\ cpu.stack = h.prev.stack

\* A copy of three bytes to 0xFFFE has wrapped: the second byte of the
\* program went to address 0 and the third to address 1.
C29_CopyWrappedAtEndOfMemory ==
    /\ CopiedInts /\ CopyArg(1) = 65534 /\ CopyArg(2) = 0 /\ CopyArg(3) = 3
    /\ MemAt(cpu.mem, 65534) = INT_STORE
    /\ MemAt(cpu.mem, 0) = 1
    /\ MemAt(cpu.mem, 1) = 254

\* The stack before the last iteration, its top, and what is below the top.
Stack0 == h.prev.stack

Top0 == Stack0[Len(Stack0)]

Below0 == SubSeq(Stack0, 1, Len(Stack0) - 1)

\* C30: PUSH/POP and CALL/RET work on one LIFO stack: PUSH and CALL put
\* their entry on top of it, RET sets IP to the entry on top, the most
\* recently pushed one not yet popped, whichever of the two pushed it, and
\* POP stores that entry; so a PUSH inside a subroutine with no POP before
\* RET makes RET jump to the pushed value.
C30_OneSharedLifoStack ==
    /\ Decoded(PUSH) /\ cpu.state = "running" =>
          cpu.stack = Append(Stack0, h.prev.regs[Was(h.ip0 + 1)].v)
    /\ Decoded(CALL) /\ cpu.state = "running" =>
          /\ cpu.stack = Append(Stack0, h.ip0 + 3)
          /\ cpu.ip = Was(h.ip0 + 1) + Was(h.ip0 + 2) * 256
    /\ Decoded(RET) /\ Stack0 # <<>> =>
          /\ cpu.state = "running"
          /\ cpu.ip = Top0
          /\ cpu.stack = Below0
    /\ Decoded(POP) /\ Stack0 # <<>> /\ cpu.state = "running" =>
          /\ cpu.regs[Was(h.ip0 + 1)] = IntObject(Top0)
          /\ cpu.stack = Below0
    /\ h.image = PushThenRetImage /\ Decoded(RET) => cpu.ip = 13 /\ cpu.stack = <<7>>

\* The RET of a subroutine that pushed 13 has jumped to 13, above the
\* return address 7.
C30_RetJumpedToPushedValue ==
    /\ h.image = PushThenRetImage /\ Decoded(RET)
    /\ Stack0 = <<7, 13>>
    /\ cpu.ip = 13

-----------------------------------------------------------------------------
(* Claims about the compiler's image, checked under Spec on the label      *)
(* programs, whose statements are numbered as in LabelStmts.               *)

\* The bytes statement i of LabelStmts compiles to, the label it names,
\* and where in its bytes the label's placeholder starts.
StmtSize(i) == IF i \in {1, 2} THEN 0 ELSE IF i \in 3..6 THEN 3 ELSE IF i \in 7..8 THEN 4 ELSE 1

StmtLabel(i) == IF i \in {1, 3, 5, 7} THEN "a" ELSE IF i \in {2, 4, 6, 8} THEN "b" ELSE ""

StmtPlaceholder(i) == IF i \in 3..6 THEN 1 ELSE 2

\* The image address the k-th statement of body starts at.
RECURSIVE StmtAddr(_, _)
StmtAddr(body, k) == IF k = 1 THEN 0 ELSE StmtAddr(body, k - 1) + StmtSize(body[k - 1])

\* Where body defines the label of its k-th statement.
DefsOf(body, k) == {d \in DOMAIN body : body[d] \in {1, 2} /\ StmtLabel(body[d]) = StmtLabel(body[k])}

LastOf(S) == CHOOSE d \in S : \A e \in S : e <= d

\* The two image bytes at the use the k-th statement of body makes.
UseBytes(body, k) ==
    <<comp.bytecode[StmtAddr(body, k) + StmtPlaceholder(body[k]) + 1],
      comp.bytecode[StmtAddr(body, k) + StmtPlaceholder(body[k]) + 2]>>

\* C31: when a label is defined more than once, every use of the name,
\* before the last definition, between two definitions or after them, is
\* patched with the address of the last definition in source order.
C31_LastDefinitionWins ==
    Compiled /\ h.prog.kind = "labels" =>
        \A k \in LabelUses(h.prog.body) :
            DefsOf(h.prog.body, k) # {} =>
                UseBytes(h.prog.body, k)
                    = <<StmtAddr(h.prog.body, LastOf(DefsOf(h.prog.body, k))) % 256,
                        StmtAddr(h.prog.body, LastOf(DefsOf(h.prog.body, k))) \div 256>>

\* ":a  jmp a  :a" has been compiled: the jump between the two definitions
\* holds 3, the address of the second.
C31_UseBetweenDefinitionsPatched ==
    /\ Compiled /\ h.prog.kind = "labels"
    /\ h.prog.body = <<1, 3, 1>>
    /\ comp.bytecode = <<JMP, 3, 0>>

\* The compiler exists: the source is being compiled, or has been.
Compiling0 == pc \in {"compile", "patch", "run", "done"} /\ h.prog.kind # "none"

\* The image indices (from 1) of the placeholder recorded at offset o.
Placeholder(o) == {o + 1, o + 2}

\* C32: during and after compilation every pending offset o has o + 1 <
\* len(image) and the placeholders of distinct pending entries do not
\* overlap; the patch pass writes every placeholder exactly once and leaves
\* every byte outside the placeholders as the main loop emitted it.
C32_PlaceholdersInsideDisjointPatchedOnce ==
    Compiling0 =>
        /\ \A o \in DOMAIN comp.fixups : o >= 0 /\ o + 1 < Len(comp.bytecode)
        /\ \A o, q \in DOMAIN comp.fixups : o # q => Placeholder(o) \cap Placeholder(q) = {}
        /\ h.written = comp.patched /\ h.rewritten = {}
        /\ h.written \subseteq DOMAIN comp.fixups
        /\ Compiled => h.written = DOMAIN comp.fixups
        /\ pc # "compile" =>
              /\ Len(comp.bytecode) = Len(h.image)
              /\ \A i \in DOMAIN comp.bytecode :
                    (\A o \in h.written : i \notin Placeholder(o))
                        => comp.bytecode[i] = h.image[i]
              /\ \A o \in DOMAIN comp.fixups : h.image[o + 1] = 0 /\ h.image[o + 2] = 0

\* Three placeholders have been patched, each once, in an image that the
\* patching changed.
C32_ThreePlaceholdersPatched ==
    /\ Compiled
    /\ Cardinality(DOMAIN comp.fixups) = 3
    /\ h.written = DOMAIN comp.fixups
    /\ comp.bytecode # h.image

\* The bytes the operands of the compiled data program stand for.
DataBytes ==
    IF h.prog.x = 0 THEN [i \in 1..Len(h.prog.body) |-> DataVals[h.prog.body[i]] % 256]
    ELSE Bytes(DataStrs[h.prog.x])

\* C33: data/db appends raw bytes only: the bytes of a STR operand without a
\* length prefix, or one byte (the value mod 256) for each of the k INT
\* operands; no opcode byte; the token after the last operand is compiled
\* as the next instruction.
C33_DataEmitsRawBytes ==
    (Compiled /\ h.prog.kind = "data") => comp.bytecode = DataBytes \o <<NOP, EXIT>>

\* "db 256, 0x1FF, 7" has been compiled to the bytes 0, 255, 7 and the
\* instructions after it.
C33_ThreeIntegersTruncated ==
    /\ Compiled /\ h.prog.kind = "data" /\ h.prog.r = 2
    /\ h.prog.body = <<4, 5, 2>>
    /\ comp.bytecode = <<0, 255, 7, NOP, EXIT>>

\* The bytes of the string the compiled store/cmp program names.
StrVal == StrVals[h.prog.x]

\* opcode, register, length mod 256, length div 256, the bytes
StrOperand(op) ==
    <<op, h.prog.r, Len(StrVal) % 256, Len(StrVal) \div 256>> \o StrVal

\* C34: 'store r, s' is emitted as STR_STORE, r, len mod 256, len div 256
\* and the bytes of s; executing it leaves register r holding Str(s) and IP
\* at the byte after the last byte of s; 'cmp r, s' executed right after
\* sets Z.
C34_StringOperandsRoundTrip ==
    h.prog.kind = "string" =>
        /\ Compiled => comp.bytecode = StrOperand(STR_STORE) \o StrOperand(CMP_STR) \o <<EXIT>>
        /\ (Executed(STR_STORE) /\ h.steps = 1) =>
              /\ cpu.regs[h.prog.r] = StrObject(StrVal)
              /\ cpu.ip = 4 + Len(StrVal)
        /\ (Executed(CMP_STR) /\ h.steps = 2) => cpu.z

\* The k-th iteration of the first Run has just been made.
AfterStep(k) == h.last = "Step" /\ h.runs = 1 /\ h.steps = k

\* The image converts the integer v to a string and back.
Converts(v) == h.loaded /\ h.image = ConvImage(v)

\* The image parses the string s.
Parses(s) == h.loaded /\ h.image = ParseImage(s)

\* C35: INT_TO_STR followed by STR_TO_INT yields Int(v) again for every
\* Int(v); after INT_TO_STR the register is a Str (IS_STR sets Z, IS_INT
\* clears it) and after STR_TO_INT an Int (IS_INT sets Z, IS_STR clears
\* it); STR_TO_INT of a string that is no decimal integer is a fatal error
\* that leaves the register unchanged.
C35_ConversionsRoundTrip ==
    /\ \A v \in ConvValues :
          Converts(v) =>
              /\ AfterStep(2) => Type(cpu.regs[1]) = "str"
              /\ AfterStep(3) => cpu.z
              /\ AfterStep(4) => ~cpu.z
              /\ AfterStep(5) => cpu.regs[1] = IntObject(v) /\ cpu.state = "running"
              /\ AfterStep(6) => cpu.z
              /\ AfterStep(7) => ~cpu.z
    /\ \A s \in NotDecimal :
          (Parses(s) /\ AfterStep(2)) =>
              /\ cpu.state = "error"
              /\ pc = "done"
              /\ cpu.regs[1] = StrObject(s)

\* 10000 has been converted to a string and back.
C35_TenThousandCameBack ==
    Converts(10000) /\ AfterStep(5) /\ cpu.regs[1] = IntObject(10000)

\* The i-th character of the input (from 1), NUL standing for its end.
CharAt(cs, i) == IF i \in DOMAIN cs THEN cs[i] ELSE NUL

Blank == {" ", "\n", "\t", "\r"}

\* The first index from i on that holds no whitespace.
RECURSIVE TokenStart(_, _)
TokenStart(cs, i) == IF CharAt(cs, i) \in Blank THEN TokenStart(cs, i + 1) ELSE i

\* The first index from i on that holds a comma or whitespace, or the
\* index after the end of the input.
RECURSIVE RunEnd(_, _)
RunEnd(cs, i) ==
    IF i > Len(cs) \/ cs[i] \in Blank \cup {","} THEN i ELSE RunEnd(cs, i + 1)

\* The first index from i on that holds a newline, or the index after the
\* end of the input.
RECURSIVE LineEnd(_, _)
LineEnd(cs, i) == IF i > Len(cs) \/ cs[i] = "\n" THEN i ELSE LineEnd(cs, i + 1)

\* A lexer whose current character is the i-th of cs.
LexerAt(cs, i) ==
    [pos |-> i - 1, nextPos |-> i, char |-> CharAt(cs, i), characters |-> cs]

\* NextToken has just been called on a lexer within an input that holds
\* no NUL character, and the token began at index s with a '#'.
HashAt(s) ==
    /\ pc \in {"lex", "hung"} /\ h.last = "NextToken"
    /\ \A i \in DOMAIN lx.characters : lx.characters[i] # NUL
    /\ s = TokenStart(lx.characters, h.prev.pos + 1)
    /\ CharAt(lx.characters, s) = "#"

\* '#' at index s is followed by a decimal digit.
RegisterAt(s) == CharAt(lx.characters, s + 1) \in {"0", "1", "2", "3", "4", "5", "6", "7", "8", "9"}

\* The call returned exactly what a call on the lexer l returns.
ReturnedAsFrom(l) ==
    /\ (pc = "hung") = NextToken(l).hung
    /\ pc = "lex" => tok = NextToken(l).tok /\ lx = NextToken(l).l

\* C36: at a token start '#' followed by a decimal digit is lexed as an
\* IDENT whose literal is '#' and all characters up to the next comma,
\* whitespace or end of input; '#' followed by anything else, the end of
\* input included, starts a comment whose characters up to the end of the
\* line produce no token: lexing resumes with the first token after that
\* line.
C36_HashIsRegisterOrComment ==
    \A s \in 1..(Len(lx.characters) + 1) :
        HashAt(s) =>
            IF RegisterAt(s)
            THEN /\ pc = "lex"
                 /\ tok = [Type |-> "IDENT",
                           Literal |-> SubSeq(lx.characters, s, RunEnd(lx.characters, s) - 1)]
                 /\ lx.pos + 1 = RunEnd(lx.characters, s)
            ELSE ReturnedAsFrom(LexerAt(lx.characters, LineEnd(lx.characters, s)))

\* The comment "# " has been skipped and the "a" on the next line returned.
C36_CommentSkippedToNextLine ==
    /\ HashAt(1) /\ ~RegisterAt(1)
    /\ lx.characters = <<"#", "\n", "a">>
    /\ tok = [Type |-> "IDENT", Literal |-> <<"a">>]

\* An iteration of Run's loop has just been made.
Iteration == h.last = "Step"

\* The last iteration compared or stored a string whose last byte is at
\* or after the end of memory, and completed.
StringRanPastEnd ==
    /\ h.last = "Step" /\ h.op \in {STR_STORE, CMP_STR} /\ cpu.state = "running"
    /\ h.ip0 + 4 + Arg(2) + Arg(3) * 256 > maxMemSize

\* C37: at the top of every iteration of Run's loop IP is in 0..0xFFFF: an
\* instruction that leaves IP greater than 0xFFFF has it reset to 0 before
\* the next fetch; Run fails with "reading beyond RAM" exactly when IP is
\* 0xFFFF at the top of an iteration, as after a JMP, CALL or RET to 0xFFFF.
C37_IpInRangeAtTopOfLoop ==
    /\ (pc = "run" /\ cpu.state = "running") => cpu.ip \in 0..maxMemSize
    /\ StringRanPastEnd => cpu.ip = 0
    /\ Iteration =>
          ((cpu.state = "error" /\ cpu.err = "reading beyond RAM") <=> h.ip0 = maxMemSize)
    /\ (Iteration /\ cpu.state = "running" /\ h.op \in {JMP, CALL}
            /\ JumpTarget = maxMemSize) => cpu.ip = maxMemSize
    /\ (Iteration /\ cpu.state = "running" /\ h.op = RET
            /\ Top0 = maxMemSize) => cpu.ip = maxMemSize

\* A string comparison ran over the end of memory and IP was reset to 0.
C37_IpResetAfterString == StringRanPastEnd /\ h.op = CMP_STR /\ cpu.ip = 0

\* The last iteration of Run's loop made Run return an error.
RunFailed == h.last = "Step" /\ cpu.state = "error"

\* C38: whenever Run returns an error the registers, the memory, the stack
\* and the Z flag are as they were before the failing instruction was
\* fetched, and Run executes no further instruction.
C38_ErrorLeavesStateUntouched ==
    (h.trace /\ RunFailed) =>
        /\ SameRegs(cpu.regs, h.prev.regs, {})
        /\ cpu.mem = h.prev.mem
        /\ cpu.stack = h.prev.stack
        /\ cpu.z = h.prev.z
        /\ pc = "done"
====
